---- MODULE Spec2Model ----
(***************************************************************************)
(* State-machine model of contracts/src/BioPassportRegistry.sol, the       *)
(* strict on-chain registry of BioPassport: issuer permissions, materials, *)
(* credentials, transfers, the per-material history and the verification   *)
(* predicate _verifyMaterialAt.                                            *)
(*                                                                         *)
(* Every external function is one action.  The checks of a function, in   *)
(* the order the EVM runs them (modifiers first), are its ...Err operator, *)
(* which yields the custom error of the revert or "ok".  A call that       *)
(* reverts leaves the whole state as it was.  block.timestamp is the       *)
(* variable now; several calls may run under one timestamp (one block).    *)
(* A material "bio:<type>:<n>" is identified by its counter value n, a     *)
(* credential "cred:<n>" and a transfer "xfer:<n>" likewise.               *)
(***************************************************************************)
EXTENDS Integers, Sequences, FiniteSets, TLC

\* ------------------------------------------------------------------ bounds
MaxTime == 2
MaxMaterials == 1
MaxHistory == 4
\* materials in the specification of the identifiers
MaxIdMaterials == 2

\* ------------------------------------------------------- domains of inputs
Addr == {"admin", "qcLab", "labA", "labB"}
\* callers and arguments tried for each function: for every check of the code
\* an input that passes it and one that fails it
AdminCallers == {"admin", "labA"}
IssuerArgs == {"qcLab"}
\* capability flags of an authorization: an identity and QC issuer, and an
\* issuer approved with no capability at all
FlagArgs == {<<TRUE, TRUE, FALSE>>, <<FALSE, FALSE, FALSE>>}
Registrants == {"labA"}
OwnerCallers == {"labA", "labB"}
AuthorityCallers == {"admin", "qcLab", "labA"}
IssuerCallers == {"qcLab", "labA"}
RevokerCallers == {"admin", "qcLab", "labA"}
Recipients == {"labB"}
MaterialStatus == {"ACTIVE", "QUARANTINED", "REVOKED"}
CredentialType == {"IDENTITY", "QC_MYCO", "USAGE_RIGHTS"}
MaterialTypeArgs == {"CELL_LINE", "BACTERIA"}
ZERO_HASH == 0
Hashes == {ZERO_HASH, 1}
MaterialIdArgs == 1..MaxMaterials
\* expiry times: none (0), one already past at every later timestamp, and two
\* that lie beyond the last timestamp
ValidUntilArgs == {0, 1, MaxTime + 1, MaxTime + 2}
AtTimes == 0..(MaxTime + 2)
CredentialIdArgs == 1..MaxHistory

VARIABLES now, admin, issuerPermissions, issuerRevokedAt,
          materialCount, materials, credentialCount, credentials,
          materialCredentials, transferCount, materialTransfers,
          materialHistory

\* The number of history entries per material, and of credentials, up to
\* which a run is followed; fixed at the start of the run.
VARIABLE historyCap

\* The off-chain verifiers.  experiments/benchmark-suite.ts materializes a
\* dataset material, asks the contract for verifyResult and then checks the
\* artifact of each credential (artifactRefs, position credIndex) into
\* fullPass and fullReasons, pushing one entry to predictions; materialized
\* tells whether that run is under way, pushed its prediction or was given up
\* by the catch around it.  MaterialVerifier.verifyMaterial of the verifier
\* CLI checks the same artifacts (position artifactIndex) into overallPass,
\* checks and artifactIntegrity; verification holds what it returned.
VARIABLES artifactRefs, verifyResult, credIndex, fullPass, fullReasons,
          predictions, materialized, artifactIndex, overallPass, checks,
          artifactIntegrity, verification

\* ArtifactStorage of the issuer service (issuer-service/src/storage.ts): what
\* verifyArtifact answered and how downloadAndVerify settled, per artifact.
VARIABLES verifyArtifactResult, downloadAndVerifyResult

verifierVars == <<artifactRefs, verifyResult, credIndex, fullPass, fullReasons,
                  predictions, materialized, artifactIndex, overallPass, checks,
                  artifactIntegrity, verification>>
storageVars == <<verifyArtifactResult, downloadAndVerifyResult>>

\* The throughput benchmark (experiments/benchmark-suite.ts): the write tasks
\* handed to its WriteQueue in the order of their enqueue calls (tasks), the
\* task on whose promise this.queue hangs (queue, 0 for the resolved promise
\* of the constructor), the loops of the concurrent clients (clients) and
\* newMaterialIds.
VARIABLES tasks, queue, clients, newMaterialIds

\* The latency benchmark over PureChainClient: the receipts that
\* executeWithMetrics handed to registerMaterial (receipts), what the harness
\* recorded for each call (opResults), and whether the run was aborted.
VARIABLES receipts, opResults, aborted

queueVars == <<tasks, queue, clients, newMaterialIds>>
harnessVars == <<receipts, opResults, aborted>>
\* the off-chain state outside each component
notVerifierVars == <<storageVars, queueVars, harnessVars>>
notStorageVars == <<verifierVars, queueVars, harnessVars>>
notQueueVars == <<verifierVars, storageVars, harnessVars>>
notHarnessVars == <<verifierVars, storageVars, queueVars>>
offVars == <<verifierVars, storageVars, queueVars, harnessVars>>

regVars == <<admin, issuerPermissions, issuerRevokedAt, materialCount, materials,
             credentialCount, credentials, materialCredentials, transferCount,
             materialTransfers, materialHistory>>
vars == <<now, admin, issuerPermissions, issuerRevokedAt, materialCount, materials,
          credentialCount, credentials, materialCredentials, transferCount,
          materialTransfers, materialHistory, offVars, historyCap>>

\* no call of the artifact storage has been made
NoStorageCall ==
    /\ verifyArtifactResult = <<>>
    /\ downloadAndVerifyResult = <<>>

\* no benchmark is under way
NoBenchmarkRun ==
    /\ tasks = <<>>
    /\ queue = 0
    /\ clients = <<>>
    /\ newMaterialIds = <<>>
    /\ receipts = <<>>
    /\ opResults = <<>>
    /\ aborted = FALSE

\* no off-chain verification is under way
NoOffChainRun ==
    /\ NoStorageCall
    /\ NoBenchmarkRun
    /\ artifactRefs = <<>>
    /\ verifyResult = [pass |-> TRUE, reasons |-> <<>>]
    /\ credIndex = 1
    /\ fullPass = TRUE
    /\ fullReasons = <<>>
    /\ predictions = <<>>
    /\ materialized = "idle"
    /\ artifactIndex = 1
    /\ overallPass = TRUE
    /\ checks = <<>>
    /\ artifactIntegrity = <<>>
    /\ verification = <<>>

\* ----------------------------------------------------------------- helpers
IssuerPermission(a, i, q, u) ==
    [isApproved |-> a, canIssueIdentity |-> i, canIssueQC |-> q, canIssueUsageRights |-> u]

materialExists(m) == m \in 1..materialCount

\* ------------------------------------------------------------------- Init
Init ==
    /\ now = 1
    /\ historyCap = MaxHistory
    /\ admin = "admin"
    /\ issuerPermissions =
         [a \in Addr |-> IF a = "admin" THEN IssuerPermission(TRUE, TRUE, TRUE, TRUE)
                                        ELSE IssuerPermission(FALSE, FALSE, FALSE, FALSE)]
    /\ issuerRevokedAt = [a \in Addr |-> 0]
    /\ materialCount = 0
    /\ materials = <<>>
    /\ credentialCount = 0
    /\ credentials = <<>>
    /\ materialCredentials = [m \in MaterialIdArgs |-> <<>>]
    /\ transferCount = 0
    /\ materialTransfers = [m \in MaterialIdArgs |-> <<>>]
    /\ materialHistory = [m \in MaterialIdArgs |-> <<>>]
    /\ NoOffChainRun

\* --------------------------------------------------------------- modifiers
onlyAdmin_NoCheck(caller) == "ok"

onlyAdmin(caller) == IF caller # admin THEN "OnlyAdmin" ELSE "ok"

onlyMaterialOwner(caller, m) ==
    IF ~materialExists(m) THEN "MaterialNotFound"
    ELSE IF materials[m].owner # caller THEN "NotMaterialOwner"
    ELSE "ok"

onlyApprovedIssuer_NoCheck(caller) == "ok"

onlyApprovedIssuer(caller) ==
    IF ~issuerPermissions[caller].isApproved THEN "NotApprovedIssuer"
    ELSE IF issuerRevokedAt[caller] # 0 THEN "IssuerRevoked"
    ELSE "ok"

materialMustExist(m) == IF ~materialExists(m) THEN "MaterialNotFound" ELSE "ok"

Tick_Wraps ==
    /\ now' = IF now < MaxTime THEN now + 1 ELSE 1
    /\ UNCHANGED <<regVars, offVars, historyCap>>

\* the passing of block time between transactions
Tick ==
    /\ now < MaxTime
    /\ now' = now + 1
    /\ UNCHANGED <<regVars, offVars, historyCap>>

\* --------------------------------------------------------- admin functions
authorizeIssuer(caller, issuer, canIdentity, canQC, canUsageRights) ==
    LET err == onlyAdmin(caller) IN
    IF err = "ok"
    THEN /\ issuerPermissions' = [issuerPermissions EXCEPT ![issuer] =
                 IssuerPermission(TRUE, canIdentity, canQC, canUsageRights)]
         /\ issuerRevokedAt' = [issuerRevokedAt EXCEPT ![issuer] = 0]
         /\ UNCHANGED <<historyCap, offVars, now, admin, materialCount, materials, credentialCount,
                        credentials, materialCredentials, transferCount,
                        materialTransfers, materialHistory>>
    ELSE UNCHANGED vars

revokeIssuer(caller, issuer) ==
    LET err == onlyAdmin(caller) IN
    IF err = "ok"
    THEN /\ issuerPermissions' = [issuerPermissions EXCEPT ![issuer].isApproved = FALSE]
         /\ issuerRevokedAt' = [issuerRevokedAt EXCEPT ![issuer] = now]
         /\ UNCHANGED <<historyCap, offVars, now, admin, materialCount, materials, credentialCount,
                        credentials, materialCredentials, transferCount,
                        materialTransfers, materialHistory>>
    ELSE UNCHANGED vars

\* ------------------------------------------------------ material functions
\* keccak256(abi.encodePacked(...)) of a history entry: an opaque 32-byte value,
\* of which the model keeps the event tag that leads the packed fields
HistoryDigest(fields) == fields[1]

IsValidMaterialType(materialType) == materialType \in {"CELL_LINE", "PLASMID"}

registerMaterialErr(materialType, metadataHash) ==
    IF ~IsValidMaterialType(materialType) THEN "InvalidMaterialType"
    ELSE IF metadataHash = ZERO_HASH THEN "InvalidCommitmentHash"
    ELSE IF materialExists(materialCount + 1) THEN "MaterialAlreadyExists"
    ELSE "ok"

\* registeredBy is an observation of msg.sender taken when the material is
\* stored; the contract keeps it only as the first value of owner
\* the id "bio:<prefix>:<n>" is the pair of the type and the counter value; the
\* mappings of the state hold the materials the bounds of Init make room for
registerMaterial(caller, materialType, metadataHash) ==
    LET err == registerMaterialErr(materialType, metadataHash)
        id  == materialCount + 1
    IN
    /\ err = "ok" => id \in DOMAIN materialHistory
    /\ IF err = "ok"
       THEN /\ materialCount' = id
            /\ materials' = Append(materials,
                   [materialId |-> <<materialType, id>>,
                    materialType |-> materialType, metadataHash |-> metadataHash,
                    owner |-> caller, status |-> "ACTIVE",
                    createdAt |-> now, updatedAt |-> now, registeredBy |-> caller])
            /\ materialHistory' = [materialHistory EXCEPT ![id] =
                   Append(@, HistoryDigest(<<"REGISTERED", caller, now>>))]
            /\ UNCHANGED <<historyCap, offVars, now, admin, issuerPermissions, issuerRevokedAt, credentialCount,
                           credentials, materialCredentials, transferCount, materialTransfers>>
       ELSE UNCHANGED vars

setStatusByOwnerErr_NoRevokeCheck(caller, m, newStatus) ==
    IF onlyMaterialOwner(caller, m) # "ok" THEN onlyMaterialOwner(caller, m)
    ELSE IF materials[m].status = "REVOKED" THEN "NotAuthorizedForStatus"
    ELSE "ok"

setStatusByOwnerErr(caller, m, newStatus) ==
    IF onlyMaterialOwner(caller, m) # "ok" THEN onlyMaterialOwner(caller, m)
    ELSE IF newStatus = "REVOKED" THEN "NotAuthorizedForStatus"
    ELSE IF materials[m].status = "REVOKED" THEN "NotAuthorizedForStatus"
    ELSE "ok"

setStatusByOwner(caller, m, newStatus, reasonHash) ==
    LET err == setStatusByOwnerErr(caller, m, newStatus) IN
    /\ err = "ok" => Len(materialHistory[m]) < historyCap
    /\ IF err = "ok"
       THEN /\ materials' = [materials EXCEPT ![m].status = newStatus, ![m].updatedAt = now]
            /\ materialHistory' = [materialHistory EXCEPT ![m] =
                   Append(@, HistoryDigest(<<"STATUS_OWNER", newStatus, reasonHash, now>>))]
            /\ UNCHANGED <<historyCap, offVars, now, admin, issuerPermissions, issuerRevokedAt, materialCount,
                           credentialCount, credentials, materialCredentials,
                           transferCount, materialTransfers>>
       ELSE UNCHANGED vars

isAuthorized(caller) ==
    \/ caller = admin
    \/ /\ issuerPermissions[caller].isApproved
       /\ issuerPermissions[caller].canIssueQC
       /\ issuerRevokedAt[caller] = 0

setStatusByAuthorityErr_NoQcCheck(caller, m, newStatus) ==
    IF materialMustExist(m) # "ok" THEN materialMustExist(m)
    ELSE IF ~(caller = admin \/ (issuerPermissions[caller].isApproved
                                 /\ issuerRevokedAt[caller] = 0))
         THEN "NotAuthorizedForStatus"
    ELSE "ok"

setStatusByAuthorityErr(caller, m, newStatus) ==
    IF materialMustExist(m) # "ok" THEN materialMustExist(m)
    ELSE IF ~isAuthorized(caller) THEN "NotAuthorizedForStatus"
    ELSE "ok"

setStatusByAuthority_OverwritesLast(caller, m, newStatus, reasonHash) ==
    LET err == setStatusByAuthorityErr(caller, m, newStatus) IN
    /\ err = "ok" => Len(materialHistory[m]) < historyCap
    /\ IF err = "ok"
       THEN /\ materials' = [materials EXCEPT ![m].status = newStatus, ![m].updatedAt = now]
            /\ materialHistory' = [materialHistory EXCEPT ![m][Len(materialHistory[m])] =
                   HistoryDigest(<<"STATUS_AUTHORITY", caller, newStatus, reasonHash, now>>)]
            /\ UNCHANGED <<historyCap, offVars, now, admin, issuerPermissions, issuerRevokedAt, materialCount,
                           credentialCount, credentials, materialCredentials,
                           transferCount, materialTransfers>>
       ELSE UNCHANGED vars

setStatusByAuthority(caller, m, newStatus, reasonHash) ==
    LET err == setStatusByAuthorityErr(caller, m, newStatus) IN
    /\ err = "ok" => Len(materialHistory[m]) < historyCap
    /\ IF err = "ok"
       THEN /\ materials' = [materials EXCEPT ![m].status = newStatus, ![m].updatedAt = now]
            /\ materialHistory' = [materialHistory EXCEPT ![m] =
                   Append(@, HistoryDigest(<<"STATUS_AUTHORITY", caller, newStatus,
                                             reasonHash, now>>))]
            /\ UNCHANGED <<historyCap, offVars, now, admin, issuerPermissions, issuerRevokedAt, materialCount,
                           credentialCount, credentials, materialCredentials,
                           transferCount, materialTransfers>>
       ELSE UNCHANGED vars

\* ---------------------------------------------------- credential functions
HasCapability(perm, credType) ==
    CASE credType = "IDENTITY"     -> perm.canIssueIdentity
      [] credType = "QC_MYCO"      -> perm.canIssueQC
      [] credType = "USAGE_RIGHTS" -> perm.canIssueUsageRights

issueCredentialErr_NoCapabilityCheck(caller, m, credType, commitmentHash, validUntil, artifactHash) ==
    IF onlyApprovedIssuer(caller) # "ok" THEN onlyApprovedIssuer(caller)
    ELSE IF materialMustExist(m) # "ok" THEN materialMustExist(m)
    ELSE IF commitmentHash = ZERO_HASH THEN "InvalidCommitmentHash"
    ELSE IF artifactHash = ZERO_HASH THEN "InvalidArtifactHash"
    ELSE IF validUntil # 0 /\ validUntil <= now THEN "InvalidValidUntil"
    ELSE "ok"

issueCredentialErr_ValidUntilMayBeNow(caller, m, credType, commitmentHash, validUntil, artifactHash) ==
    IF onlyApprovedIssuer(caller) # "ok" THEN onlyApprovedIssuer(caller)
    ELSE IF materialMustExist(m) # "ok" THEN materialMustExist(m)
    ELSE IF commitmentHash = ZERO_HASH THEN "InvalidCommitmentHash"
    ELSE IF artifactHash = ZERO_HASH THEN "InvalidArtifactHash"
    ELSE IF validUntil # 0 /\ validUntil < now THEN "InvalidValidUntil"
    ELSE IF ~HasCapability(issuerPermissions[caller], credType)
         THEN "NotAuthorizedForCredentialType"
    ELSE "ok"

issueCredentialErr_NoValidUntilCheck(caller, m, credType, commitmentHash, validUntil, artifactHash) ==
    IF onlyApprovedIssuer(caller) # "ok" THEN onlyApprovedIssuer(caller)
    ELSE IF materialMustExist(m) # "ok" THEN materialMustExist(m)
    ELSE IF commitmentHash = ZERO_HASH THEN "InvalidCommitmentHash"
    ELSE IF artifactHash = ZERO_HASH THEN "InvalidArtifactHash"
    ELSE IF ~HasCapability(issuerPermissions[caller], credType)
         THEN "NotAuthorizedForCredentialType"
    ELSE "ok"

issueCredentialErr(caller, m, credType, commitmentHash, validUntil, artifactHash) ==
    IF onlyApprovedIssuer(caller) # "ok" THEN onlyApprovedIssuer(caller)
    ELSE IF materialMustExist(m) # "ok" THEN materialMustExist(m)
    ELSE IF commitmentHash = ZERO_HASH THEN "InvalidCommitmentHash"
    ELSE IF artifactHash = ZERO_HASH THEN "InvalidArtifactHash"
    ELSE IF validUntil # 0 /\ validUntil <= now THEN "InvalidValidUntil"
    ELSE IF ~HasCapability(issuerPermissions[caller], credType)
         THEN "NotAuthorizedForCredentialType"
    ELSE "ok"

issueCredential_CountsBeforeChecks(caller, m, credType, commitmentHash, validUntil, artifactHash) ==
    LET err == issueCredentialErr(caller, m, credType, commitmentHash, validUntil, artifactHash)
        id  == credentialCount + 1
    IN
    /\ credentialCount < historyCap
    /\ credentialCount' = id
    /\ IF err = "ok" /\ Len(materialHistory[m]) < historyCap
       THEN /\ credentials' = Append(credentials,
                   [credentialId |-> id, materialId |-> m, credType |-> credType,
                    commitmentHash |-> commitmentHash, issuer |-> caller,
                    issuedAt |-> now, validUntil |-> validUntil,
                    artifactHash |-> artifactHash, revoked |-> FALSE,
                    issuerApprovedAtIssue |-> issuerPermissions[caller].isApproved])
            /\ materialCredentials' = [materialCredentials EXCEPT ![m] = Append(@, id)]
            /\ materialHistory' = [materialHistory EXCEPT ![m] =
                   Append(@, HistoryDigest(<<"CREDENTIAL_ISSUED", id, credType, now>>))]
            /\ UNCHANGED <<historyCap, offVars, now, admin, issuerPermissions, issuerRevokedAt, materialCount,
                           materials, transferCount, materialTransfers>>
       ELSE UNCHANGED <<historyCap, offVars, now, admin, issuerPermissions, issuerRevokedAt, materialCount,
                        materials, credentials, materialCredentials, transferCount,
                        materialTransfers, materialHistory>>

\* issuerApprovedAtIssue is an observation of issuerPermissions[msg.sender].isApproved
\* taken when the credential is stored; the contract does not keep it
issueCredential(caller, m, credType, commitmentHash, validUntil, artifactHash) ==
    LET err == issueCredentialErr(caller, m, credType, commitmentHash, validUntil, artifactHash)
        id  == credentialCount + 1
    IN
    /\ err = "ok" => Len(materialHistory[m]) < historyCap
    /\ IF err = "ok"
       THEN /\ credentialCount' = id
            /\ credentials' = Append(credentials,
                   [credentialId |-> id, materialId |-> m, credType |-> credType,
                    commitmentHash |-> commitmentHash, issuer |-> caller,
                    issuedAt |-> now, validUntil |-> validUntil,
                    artifactHash |-> artifactHash, revoked |-> FALSE,
                    issuerApprovedAtIssue |-> issuerPermissions[caller].isApproved])
            /\ materialCredentials' = [materialCredentials EXCEPT ![m] = Append(@, id)]
            /\ materialHistory' = [materialHistory EXCEPT ![m] =
                   Append(@, HistoryDigest(<<"CREDENTIAL_ISSUED", id, credType, now>>))]
            /\ UNCHANGED <<historyCap, offVars, now, admin, issuerPermissions, issuerRevokedAt, materialCount,
                           materials, transferCount, materialTransfers>>
       ELSE UNCHANGED vars

revokeCredentialErr_NoRevokedCheck(caller, credentialId) ==
    IF credentialId \notin 1..credentialCount THEN "CredentialNotFound"
    ELSE IF credentials[credentialId].issuer # caller /\ caller # admin
         THEN "NotAuthorizedToRevoke"
    ELSE "ok"

revokeCredentialErr(caller, credentialId) ==
    IF credentialId \notin 1..credentialCount THEN "CredentialNotFound"
    ELSE IF credentials[credentialId].issuer # caller /\ caller # admin
         THEN "NotAuthorizedToRevoke"
    ELSE IF credentials[credentialId].revoked THEN "CredentialAlreadyRevoked"
    ELSE "ok"

revokeCredential(caller, credentialId) ==
    LET err == revokeCredentialErr(caller, credentialId)
        m   == credentials[credentialId].materialId
    IN
    /\ err = "ok" => Len(materialHistory[m]) < historyCap
    /\ IF err = "ok"
       THEN /\ credentials' = [credentials EXCEPT ![credentialId].revoked = TRUE]
            /\ materialHistory' = [materialHistory EXCEPT ![m] =
                   Append(@, HistoryDigest(<<"CREDENTIAL_REVOKED", credentialId, now>>))]
            /\ UNCHANGED <<historyCap, offVars, now, admin, issuerPermissions, issuerRevokedAt, materialCount,
                           materials, credentialCount, materialCredentials,
                           transferCount, materialTransfers>>
       ELSE UNCHANGED vars

\* ------------------------------------------------------ transfer functions
initiateTransferErr_NoActiveCheck(caller, m) ==
    IF onlyMaterialOwner(caller, m) # "ok" THEN onlyMaterialOwner(caller, m)
    ELSE IF Len(materialTransfers[m]) > 0
            /\ ~materialTransfers[m][Len(materialTransfers[m])].accepted
         THEN "PendingTransferExists"
    ELSE "ok"

initiateTransferErr_NoPendingCheck(caller, m) ==
    IF onlyMaterialOwner(caller, m) # "ok" THEN onlyMaterialOwner(caller, m)
    ELSE IF materials[m].status # "ACTIVE" THEN "MaterialNotActive"
    ELSE "ok"

initiateTransferErr_PendingCheckNegated(caller, m) ==
    IF onlyMaterialOwner(caller, m) # "ok" THEN onlyMaterialOwner(caller, m)
    ELSE IF materials[m].status # "ACTIVE" THEN "MaterialNotActive"
    ELSE IF Len(materialTransfers[m]) > 0
            /\ materialTransfers[m][Len(materialTransfers[m])].accepted
         THEN "PendingTransferExists"
    ELSE "ok"

initiateTransferErr_NoOwnerCheck(caller, m) ==
    IF ~materialExists(m) THEN "MaterialNotFound"
    ELSE IF materials[m].status # "ACTIVE" THEN "MaterialNotActive"
    ELSE IF Len(materialTransfers[m]) > 0
            /\ ~materialTransfers[m][Len(materialTransfers[m])].accepted
         THEN "PendingTransferExists"
    ELSE "ok"

initiateTransferErr(caller, m) ==
    IF onlyMaterialOwner(caller, m) # "ok" THEN onlyMaterialOwner(caller, m)
    ELSE IF materials[m].status # "ACTIVE" THEN "MaterialNotActive"
    ELSE IF Len(materialTransfers[m]) > 0
            /\ ~materialTransfers[m][Len(materialTransfers[m])].accepted
         THEN "PendingTransferExists"
    ELSE "ok"

initiateTransfer_PerMaterialIds(caller, m, toAddress, shipmentHash) ==
    LET err == initiateTransferErr(caller, m)
        id  == Len(materialTransfers[m]) + 1
    IN
    /\ err = "ok" => Len(materialHistory[m]) < historyCap
    /\ IF err = "ok"
       THEN /\ transferCount' = transferCount + 1
            /\ materialTransfers' = [materialTransfers EXCEPT ![m] = Append(@,
                   [transferId |-> id, materialId |-> m, fromAddress |-> caller,
                    toAddress |-> toAddress, shipmentHash |-> shipmentHash,
                    timestamp |-> now, accepted |-> FALSE])]
            /\ materialHistory' = [materialHistory EXCEPT ![m] =
                   Append(@, HistoryDigest(<<"TRANSFER_INITIATED", id, toAddress, now>>))]
            /\ UNCHANGED <<historyCap, offVars, now, admin, issuerPermissions, issuerRevokedAt, materialCount,
                           materials, credentialCount, credentials, materialCredentials>>
       ELSE UNCHANGED vars

initiateTransfer(caller, m, toAddress, shipmentHash) ==
    LET err == initiateTransferErr(caller, m)
        id  == transferCount + 1
    IN
    /\ err = "ok" => Len(materialHistory[m]) < historyCap
    /\ IF err = "ok"
       THEN /\ transferCount' = id
            /\ materialTransfers' = [materialTransfers EXCEPT ![m] = Append(@,
                   [transferId |-> id, materialId |-> m, fromAddress |-> caller,
                    toAddress |-> toAddress, shipmentHash |-> shipmentHash,
                    timestamp |-> now, accepted |-> FALSE])]
            /\ materialHistory' = [materialHistory EXCEPT ![m] =
                   Append(@, HistoryDigest(<<"TRANSFER_INITIATED", id, toAddress, now>>))]
            /\ UNCHANGED <<historyCap, offVars, now, admin, issuerPermissions, issuerRevokedAt, materialCount,
                           materials, credentialCount, credentials, materialCredentials>>
       ELSE UNCHANGED vars

acceptTransferErr_NoRecipientCheck(caller, m) ==
    IF materialMustExist(m) # "ok" THEN materialMustExist(m)
    ELSE IF Len(materialTransfers[m]) = 0 THEN "NoTransfers"
    ELSE IF materialTransfers[m][Len(materialTransfers[m])].accepted THEN "NoPendingTransfer"
    ELSE "ok"

acceptTransferErr_RequiresActive(caller, m) ==
    IF materialMustExist(m) # "ok" THEN materialMustExist(m)
    ELSE IF materials[m].status # "ACTIVE" THEN "MaterialNotActive"
    ELSE IF Len(materialTransfers[m]) = 0 THEN "NoTransfers"
    ELSE IF materialTransfers[m][Len(materialTransfers[m])].accepted THEN "NoPendingTransfer"
    ELSE IF materialTransfers[m][Len(materialTransfers[m])].toAddress # caller
         THEN "NotTransferRecipient"
    ELSE "ok"

acceptTransferErr(caller, m) ==
    IF materialMustExist(m) # "ok" THEN materialMustExist(m)
    ELSE IF Len(materialTransfers[m]) = 0 THEN "NoTransfers"
    ELSE IF materialTransfers[m][Len(materialTransfers[m])].accepted THEN "NoPendingTransfer"
    ELSE IF materialTransfers[m][Len(materialTransfers[m])].toAddress # caller
         THEN "NotTransferRecipient"
    ELSE "ok"

acceptTransfer_KeepOwner(caller, m) ==
    LET err  == acceptTransferErr(caller, m)
        last == Len(materialTransfers[m])
    IN
    /\ err = "ok" => Len(materialHistory[m]) < historyCap
    /\ IF err = "ok"
       THEN /\ materialTransfers' = [materialTransfers EXCEPT ![m][last].accepted = TRUE]
            /\ materials' = [materials EXCEPT ![m].updatedAt = now]
            /\ materialHistory' = [materialHistory EXCEPT ![m] =
                   Append(@, HistoryDigest(<<"TRANSFER_ACCEPTED",
                                             materialTransfers[m][last].transferId,
                                             caller, now>>))]
            /\ UNCHANGED <<historyCap, offVars, now, admin, issuerPermissions, issuerRevokedAt, materialCount,
                           credentialCount, credentials, materialCredentials, transferCount>>
       ELSE UNCHANGED vars

acceptTransfer(caller, m) ==
    LET err  == acceptTransferErr(caller, m)
        last == Len(materialTransfers[m])
    IN
    /\ err = "ok" => Len(materialHistory[m]) < historyCap
    /\ IF err = "ok"
       THEN /\ materialTransfers' = [materialTransfers EXCEPT ![m][last].accepted = TRUE]
            /\ materials' = [materials EXCEPT ![m].owner = caller, ![m].updatedAt = now]
            /\ materialHistory' = [materialHistory EXCEPT ![m] =
                   Append(@, HistoryDigest(<<"TRANSFER_ACCEPTED",
                                             materialTransfers[m][last].transferId,
                                             caller, now>>))]
            /\ UNCHANGED <<historyCap, offVars, now, admin, issuerPermissions, issuerRevokedAt, materialCount,
                           credentialCount, credentials, materialCredentials, transferCount>>
       ELSE UNCHANGED vars

\* ------------------------------------------------------------ verification
issuerWasRevokedBeforeIssuance_Strict(cred) ==
    issuerRevokedAt[cred.issuer] # 0 /\ cred.issuedAt > issuerRevokedAt[cred.issuer]

issuerWasRevokedBeforeIssuance(cred) ==
    issuerRevokedAt[cred.issuer] # 0 /\ cred.issuedAt >= issuerRevokedAt[cred.issuer]

ScanInit ==
    [hasIdentity |-> FALSE, latestQcIssuedAt |-> 0, latestQcValidUntil |-> 0,
     latestQcFromRevokedIssuer |-> FALSE]

ScanStep_FirstQc(acc, cred) ==
    LET acc1 == IF cred.credType = "IDENTITY" /\ ~cred.revoked
                   /\ ~issuerWasRevokedBeforeIssuance(cred)
                THEN [acc EXCEPT !.hasIdentity = TRUE] ELSE acc
    IN
    IF cred.credType = "QC_MYCO" /\ ~cred.revoked /\ acc1.latestQcIssuedAt = 0
    THEN [acc1 EXCEPT !.latestQcIssuedAt = cred.issuedAt,
                      !.latestQcValidUntil = cred.validUntil,
                      !.latestQcFromRevokedIssuer = issuerWasRevokedBeforeIssuance(cred)]
    ELSE acc1

ScanStep_RevokedIdentityCounts(acc, cred) ==
    LET acc1 == IF cred.credType = "IDENTITY" /\ cred.revoked
                   /\ ~issuerWasRevokedBeforeIssuance(cred)
                THEN [acc EXCEPT !.hasIdentity = TRUE] ELSE acc
    IN
    IF cred.credType = "QC_MYCO" /\ ~cred.revoked /\ cred.issuedAt > acc1.latestQcIssuedAt
    THEN [acc1 EXCEPT !.latestQcIssuedAt = cred.issuedAt,
                      !.latestQcValidUntil = cred.validUntil,
                      !.latestQcFromRevokedIssuer = issuerWasRevokedBeforeIssuance(cred)]
    ELSE acc1

\* one pass of the loop over materialCredentials[materialId]
ScanStep(acc, cred) ==
    LET acc1 == IF cred.credType = "IDENTITY" /\ ~cred.revoked
                   /\ ~issuerWasRevokedBeforeIssuance(cred)
                THEN [acc EXCEPT !.hasIdentity = TRUE] ELSE acc
    IN
    IF cred.credType = "QC_MYCO" /\ ~cred.revoked /\ cred.issuedAt > acc1.latestQcIssuedAt
    THEN [acc1 EXCEPT !.latestQcIssuedAt = cred.issuedAt,
                      !.latestQcValidUntil = cred.validUntil,
                      !.latestQcFromRevokedIssuer = issuerWasRevokedBeforeIssuance(cred)]
    ELSE acc1

RECURSIVE ScanCredentials(_, _, _)
ScanCredentials(credIds, i, acc) ==
    IF i > Len(credIds) THEN acc
    ELSE ScanCredentials(credIds, i + 1, ScanStep(acc, credentials[credIds[i]]))

_verifyMaterialAt_PassIgnoresTransfers(m, atTime) ==
    LET mat  == materials[m]
        scan == ScanCredentials(materialCredentials[m], 1, ScanInit)
        hasValidQC == /\ scan.latestQcIssuedAt # 0
                      /\ scan.latestQcValidUntil >= atTime
                      /\ ~scan.latestQcFromRevokedIssuer
        r1 == IF mat.status = "REVOKED" THEN <<"MATERIAL_REVOKED">>
              ELSE IF mat.status = "QUARANTINED" THEN <<"MATERIAL_QUARANTINED">>
              ELSE <<>>
        r2 == IF ~scan.hasIdentity THEN <<"MISSING_IDENTITY">> ELSE <<>>
        r3 == IF hasValidQC THEN <<>>
              ELSE IF scan.latestQcIssuedAt = 0 THEN <<"QC_MISSING">>
              ELSE IF scan.latestQcFromRevokedIssuer THEN <<"QC_ISSUER_REVOKED">>
              ELSE <<"QC_EXPIRED">>
        r4 == IF \E i \in 1..Len(materialTransfers[m]) : ~materialTransfers[m][i].accepted
              THEN <<"TRANSFER_PENDING">> ELSE <<>>
        reasons == r1 \o r2 \o r3 \o r4
    IN [pass |-> Len(r1 \o r2 \o r3) = 0, reasons |-> reasons]

_verifyMaterialAt_TransfersFirst(m, atTime) ==
    LET mat  == materials[m]
        scan == ScanCredentials(materialCredentials[m], 1, ScanInit)
        hasValidQC == /\ scan.latestQcIssuedAt # 0
                      /\ scan.latestQcValidUntil >= atTime
                      /\ ~scan.latestQcFromRevokedIssuer
        r1 == IF mat.status = "REVOKED" THEN <<"MATERIAL_REVOKED">>
              ELSE IF mat.status = "QUARANTINED" THEN <<"MATERIAL_QUARANTINED">>
              ELSE <<>>
        r2 == IF ~scan.hasIdentity THEN <<"MISSING_IDENTITY">> ELSE <<>>
        r3 == IF hasValidQC THEN <<>>
              ELSE IF scan.latestQcIssuedAt = 0 THEN <<"QC_MISSING">>
              ELSE IF scan.latestQcFromRevokedIssuer THEN <<"QC_ISSUER_REVOKED">>
              ELSE <<"QC_EXPIRED">>
        r4 == IF \E i \in 1..Len(materialTransfers[m]) : ~materialTransfers[m][i].accepted
              THEN <<"TRANSFER_PENDING">> ELSE <<>>
        reasons == r4 \o r1 \o r2 \o r3
    IN [pass |-> Len(reasons) = 0, reasons |-> reasons]

_verifyMaterialAt(m, atTime) ==
    LET mat  == materials[m]
        scan == ScanCredentials(materialCredentials[m], 1, ScanInit)
        hasValidQC == /\ scan.latestQcIssuedAt # 0
                      /\ scan.latestQcValidUntil >= atTime
                      /\ ~scan.latestQcFromRevokedIssuer
        r1 == IF mat.status = "REVOKED" THEN <<"MATERIAL_REVOKED">>
              ELSE IF mat.status = "QUARANTINED" THEN <<"MATERIAL_QUARANTINED">>
              ELSE <<>>
        r2 == IF ~scan.hasIdentity THEN <<"MISSING_IDENTITY">> ELSE <<>>
        r3 == IF hasValidQC THEN <<>>
              ELSE IF scan.latestQcIssuedAt = 0 THEN <<"QC_MISSING">>
              ELSE IF scan.latestQcFromRevokedIssuer THEN <<"QC_ISSUER_REVOKED">>
              ELSE <<"QC_EXPIRED">>
        r4 == IF \E i \in 1..Len(materialTransfers[m]) : ~materialTransfers[m][i].accepted
              THEN <<"TRANSFER_PENDING">> ELSE <<>>
        reasons == r1 \o r2 \o r3 \o r4
    IN [pass |-> Len(reasons) = 0, reasons |-> reasons]

\* The external view functions as a caller meets them: the modifier
\* materialMustExist reverts for an identifier that is not registered, and
\* only then does _verifyMaterialAt answer.
verifyMaterialCall(m) ==
    IF materialMustExist(m) # "ok"
    THEN [kind |-> "reverted", error |-> materialMustExist(m), pass |-> FALSE, reasons |-> <<>>]
    ELSE [kind |-> "returned", error |-> "",
          pass |-> _verifyMaterialAt(m, now).pass, reasons |-> _verifyMaterialAt(m, now).reasons]

verifyMaterialAtCall(m, atTime) ==
    IF materialMustExist(m) # "ok"
    THEN [kind |-> "reverted", error |-> materialMustExist(m), pass |-> FALSE, reasons |-> <<>>]
    ELSE [kind |-> "returned", error |-> "",
          pass |-> _verifyMaterialAt(m, atTime).pass,
          reasons |-> _verifyMaterialAt(m, atTime).reasons]

\* verifyMaterial of the client of the issuer service, connected: the answer
\* of the contract becomes pass and reasons, a failed call the one reason
\* ERROR
PureChainClient_verifyMaterial(m) ==
    IF verifyMaterialCall(m).kind = "returned"
    THEN [pass |-> verifyMaterialCall(m).pass, reasons |-> verifyMaterialCall(m).reasons]
    ELSE [pass |-> FALSE, reasons |-> <<"ERROR">>]

verifyMaterialAt_FromBlockTime(m, atTime) == _verifyMaterialAt(m, now + atTime)

verifyMaterialAt(m, atTime) == _verifyMaterialAt(m, atTime)

verifyMaterial(m) == _verifyMaterialAt(m, now)

\* ------------------------------------------------------ next-state relation
Next ==
    \/ Tick
    \/ \E caller \in AdminCallers, issuer \in IssuerArgs, f \in FlagArgs :
          authorizeIssuer(caller, issuer, f[1], f[2], f[3])
    \/ \E caller \in AdminCallers, issuer \in IssuerArgs : revokeIssuer(caller, issuer)
    \/ \E caller \in Registrants, mt \in MaterialTypeArgs, h \in Hashes :
          registerMaterial(caller, mt, h)
    \/ \E caller \in OwnerCallers, m \in MaterialIdArgs, s \in MaterialStatus, h \in Hashes :
          setStatusByOwner(caller, m, s, h)
    \/ \E caller \in AuthorityCallers, m \in MaterialIdArgs, s \in MaterialStatus, h \in Hashes :
          setStatusByAuthority(caller, m, s, h)
    \/ \E caller \in IssuerCallers, m \in MaterialIdArgs, t \in CredentialType, ch \in Hashes,
          vu \in ValidUntilArgs, ah \in Hashes :
          issueCredential(caller, m, t, ch, vu, ah)
    \/ \E caller \in RevokerCallers, c \in CredentialIdArgs : revokeCredential(caller, c)
    \/ \E caller \in OwnerCallers, m \in MaterialIdArgs, to \in Recipients, h \in Hashes :
          initiateTransfer(caller, m, to, h)
    \/ \E caller \in OwnerCallers, m \in MaterialIdArgs : acceptTransfer(caller, m)

Spec == Init /\ [][Next]_vars
\* ------------------------------------- the registry with several materials
\* The counters and identifiers of MaxIdMaterials materials under calls with
\* fixed hashes and expiry: registrations of both valid types, credentials of
\* the admin (an approved issuer from the constructor on) and of an address
\* that is not approved, transfers to one recipient and their acceptance.
IdMaterialIds == 1..MaxIdMaterials
IdMaterialTypes == {"CELL_LINE", "PLASMID"}
IdCredentialTypes == {"IDENTITY", "QC_MYCO"}
IdIssuerCallers == {"admin", "labA"}

InitIds ==
    /\ now = 1
    /\ historyCap = MaxHistory
    /\ admin = "admin"
    /\ issuerPermissions =
         [a \in Addr |-> IF a = "admin" THEN IssuerPermission(TRUE, TRUE, TRUE, TRUE)
                                        ELSE IssuerPermission(FALSE, FALSE, FALSE, FALSE)]
    /\ issuerRevokedAt = [a \in Addr |-> 0]
    /\ materialCount = 0
    /\ materials = <<>>
    /\ credentialCount = 0
    /\ credentials = <<>>
    /\ materialCredentials = [m \in IdMaterialIds |-> <<>>]
    /\ transferCount = 0
    /\ materialTransfers = [m \in IdMaterialIds |-> <<>>]
    /\ materialHistory = [m \in IdMaterialIds |-> <<>>]
    /\ NoOffChainRun

NextIds ==
    \/ Tick
    \/ \E caller \in Registrants, mt \in IdMaterialTypes, h \in Hashes :
          registerMaterial(caller, mt, h)
    \/ \E caller \in IdIssuerCallers, m \in IdMaterialIds, t \in IdCredentialTypes :
          issueCredential(caller, m, t, 1, 0, 1)
    \/ \E caller \in OwnerCallers, m \in IdMaterialIds, to \in Recipients :
          initiateTransfer(caller, m, to, 1)
    \/ \E caller \in OwnerCallers, m \in IdMaterialIds : acceptTransfer(caller, m)

SpecIds == InitIds /\ [][NextIds]_vars
\* ------------------------------------------- off-chain artifact integrity
\* An artifact reference carries the hash stored with the credential ("" when
\* it has none, hex in either case otherwise) and what the store does when
\* the artifact is fetched: no object under any candidate name (NotFound), an
\* object whose read fails (ReadError), a read that never comes back
\* (Timeout), or bytes, given by their SHA-256 as crypto prints it, in
\* lower-case hex.
MaxArtifacts == 2
StoredHashes == {"", "aa", "AA", "bb"}
Digests == {"aa", "bb"}
Retrievals == {"NotFound", "ReadError", "Timeout"} \cup Digests
ArtifactRefArgs == [hash : StoredHashes, fetch : Retrievals]
VerifyResultArgs ==
    {[pass |-> TRUE, reasons |-> <<>>], [pass |-> FALSE, reasons |-> <<"QC_EXPIRED">>]}

toLowerCase(s) == IF s = "AA" THEN "aa" ELSE s

returned(valid, reason) == [kind |-> "returned", valid |-> valid, reason |-> reason]
threw == [kind |-> "threw", valid |-> FALSE, reason |-> ""]
pending == [kind |-> "pending", valid |-> FALSE, reason |-> ""]

\* verifyArtifactIntegrity of the benchmark suite.  fs.existsSync answers
\* false for a missing file; fs.readFileSync of a file that exists throws
\* when the read fails, and nothing in the function catches it; neither call
\* has a time limit.
verifyArtifactIntegrity(artifactRef) ==
    IF artifactRef.hash = "" THEN returned(TRUE, "")
    ELSE IF artifactRef.fetch = "NotFound" THEN returned(FALSE, "ARTIFACT_UNAVAILABLE")
    ELSE IF artifactRef.fetch = "ReadError" THEN threw
    ELSE IF artifactRef.fetch = "Timeout" THEN pending
    ELSE IF toLowerCase(artifactRef.hash) # toLowerCase(artifactRef.fetch)
         THEN returned(FALSE, "HASH_MISMATCH")
    ELSE returned(TRUE, "")

\* one turn of the loop over the credentials of the material in
\* calculateLiveConfusionMatrices; an exception leaves the loop for the catch
\* of the materialization, which logs it and pushes no prediction
calculateLiveConfusionMatrices_artifact ==
    /\ materialized = "running"
    /\ credIndex <= Len(artifactRefs)
    /\ LET artifactRef == artifactRefs[credIndex]
           artifactIntegrityResult == verifyArtifactIntegrity(artifactRef)
       IN  IF artifactRef.hash = ""
           THEN /\ credIndex' = credIndex + 1
                /\ UNCHANGED <<fullPass, fullReasons, materialized>>
           ELSE /\ artifactIntegrityResult.kind # "pending"
                /\ IF artifactIntegrityResult.kind = "threw"
                   THEN /\ materialized' = "failed"
                        /\ UNCHANGED <<credIndex, fullPass, fullReasons>>
                   ELSE /\ credIndex' = credIndex + 1
                        /\ materialized' = materialized
                        /\ IF ~artifactIntegrityResult.valid
                           THEN /\ fullPass' = FALSE
                                /\ fullReasons' =
                                     Append(fullReasons,
                                            IF artifactIntegrityResult.reason = "ARTIFACT_UNAVAILABLE"
                                            THEN "ARTIFACT_UNAVAILABLE"
                                            ELSE "ARTIFACT_TAMPERED")
                           ELSE UNCHANGED <<fullPass, fullReasons>>
    /\ UNCHANGED <<now, historyCap, regVars, notVerifierVars, artifactRefs, verifyResult, predictions, artifactIndex,
                   overallPass, checks, artifactIntegrity, verification>>

\* predictions.push after the loop
calculateLiveConfusionMatrices_push ==
    /\ materialized = "running"
    /\ credIndex > Len(artifactRefs)
    /\ predictions' = Append(predictions,
                             [onChainPass |-> verifyResult.pass,
                              onChainReasons |-> verifyResult.reasons,
                              fullPass |-> fullPass,
                              fullReasons |-> fullReasons])
    /\ materialized' = "pushed"
    /\ UNCHANGED <<now, historyCap, regVars, notVerifierVars, artifactRefs, verifyResult, credIndex, fullPass,
                   fullReasons, artifactIndex, overallPass, checks, artifactIntegrity,
                   verification>>

\* verifyArtifactIntegrity of MaterialVerifier.  A rejected getObject is
\* caught, an 'error' event of the stream resolves the promise, both with
\* valid false and the error message; the promise has no timer, so a stream
\* that neither ends nor fails leaves it unresolved.
ArtifactIntegrityResult(valid, actualHash, error) ==
    [kind |-> "returned", valid |-> valid, actualHash |-> actualHash, error |-> error]

MaterialVerifier_verifyArtifactIntegrity(artifact) ==
    IF artifact.fetch = "NotFound" THEN ArtifactIntegrityResult(FALSE, "", "NotFound")
    ELSE IF artifact.fetch = "ReadError" THEN ArtifactIntegrityResult(FALSE, "", "ReadError")
    ELSE IF artifact.fetch = "Timeout"
         THEN [kind |-> "pending", valid |-> FALSE, actualHash |-> "", error |-> ""]
    ELSE ArtifactIntegrityResult(artifact.fetch = artifact.hash, artifact.fetch, "")

\* one turn of the loop over the artifacts of a valid credential in
\* MaterialVerifier.verifyMaterial, under the option verifyArtifacts
verifyMaterial_artifact ==
    /\ verification = <<>>
    /\ artifactIndex <= Len(artifactRefs)
    /\ LET integrityResult == MaterialVerifier_verifyArtifactIntegrity(artifactRefs[artifactIndex])
       IN  /\ integrityResult.kind # "pending"
           /\ artifactIntegrity' = Append(artifactIntegrity, integrityResult)
           /\ IF ~integrityResult.valid
              THEN /\ checks' = Append(checks, [name |-> "Artifact Integrity", pass |-> FALSE])
                   /\ overallPass' = FALSE
              ELSE UNCHANGED <<checks, overallPass>>
    /\ artifactIndex' = artifactIndex + 1
    /\ UNCHANGED <<now, historyCap, regVars, notVerifierVars, artifactRefs, verifyResult, credIndex, fullPass,
                   fullReasons, predictions, materialized, verification>>

\* the return of MaterialVerifier.verifyMaterial
verifyMaterial_return ==
    /\ verification = <<>>
    /\ artifactIndex > Len(artifactRefs)
    /\ verification' = <<[pass |-> overallPass, checks |-> checks,
                          artifactIntegrity |-> artifactIntegrity]>>
    /\ UNCHANGED <<now, historyCap, regVars, notVerifierVars, artifactRefs, verifyResult, credIndex, fullPass,
                   fullReasons, predictions, materialized, artifactIndex, overallPass,
                   checks, artifactIntegrity>>

\* Both verifiers start on a material with up to MaxArtifacts artifact
\* references, the benchmark with the answer of the contract, the verifier
\* CLI with the outcome of its credential checks; the registry is as built.
InitArtifact ==
    /\ now = 1
    /\ historyCap = MaxHistory
    /\ admin = "admin"
    /\ issuerPermissions =
         [a \in Addr |-> IF a = "admin" THEN IssuerPermission(TRUE, TRUE, TRUE, TRUE)
                                        ELSE IssuerPermission(FALSE, FALSE, FALSE, FALSE)]
    /\ issuerRevokedAt = [a \in Addr |-> 0]
    /\ materialCount = 0
    /\ materials = <<>>
    /\ credentialCount = 0
    /\ credentials = <<>>
    /\ materialCredentials = [m \in MaterialIdArgs |-> <<>>]
    /\ transferCount = 0
    /\ materialTransfers = [m \in MaterialIdArgs |-> <<>>]
    /\ materialHistory = [m \in MaterialIdArgs |-> <<>>]
    /\ NoBenchmarkRun
    /\ NoStorageCall
    /\ \E n \in 1..MaxArtifacts : artifactRefs \in [1..n -> ArtifactRefArgs]
    /\ verifyResult \in VerifyResultArgs
    /\ credIndex = 1
    /\ fullPass = verifyResult.pass
    /\ fullReasons = verifyResult.reasons
    /\ predictions = <<>>
    /\ materialized = "running"
    /\ artifactIndex = 1
    /\ overallPass \in BOOLEAN
    /\ checks = <<>>
    /\ artifactIntegrity = <<>>
    /\ verification = <<>>

NextArtifact ==
    \/ calculateLiveConfusionMatrices_artifact
    \/ calculateLiveConfusionMatrices_push
    \/ verifyMaterial_artifact
    \/ verifyMaterial_return

SpecArtifact == InitArtifact /\ [][NextArtifact]_vars
\* ------------------------------------------ the store of the issuer service
\* the registry as its constructor leaves it
RegistryInit ==
    /\ now = 1
    /\ historyCap = MaxHistory
    /\ admin = "admin"
    /\ issuerPermissions =
         [a \in Addr |-> IF a = "admin" THEN IssuerPermission(TRUE, TRUE, TRUE, TRUE)
                                        ELSE IssuerPermission(FALSE, FALSE, FALSE, FALSE)]
    /\ issuerRevokedAt = [a \in Addr |-> 0]
    /\ materialCount = 0
    /\ materials = <<>>
    /\ credentialCount = 0
    /\ credentials = <<>>
    /\ materialCredentials = [m \in MaterialIdArgs |-> <<>>]
    /\ transferCount = 0
    /\ materialTransfers = [m \in MaterialIdArgs |-> <<>>]
    /\ materialHistory = [m \in MaterialIdArgs |-> <<>>]

\* An object of the store: the bytes it delivers (fetch, as for the
\* verifiers) and the user metadata x-amz-meta-hash that statObject reports
\* for it ("" when the object carries none); hash is the artifact hash the
\* caller expects.
MetaHashes == {"", "aa", "bb"}
StoredObjectArgs == [hash : StoredHashes, fetch : Retrievals, meta : MetaHashes]

\* ArtifactStorage.verifyArtifact: statObject throws for an object that is
\* not there, which the catch turns into false; otherwise the answer is the
\* comparison of the reported metadata with the expected hash, and the bytes
\* of the object are never read.
verifyArtifact(object) ==
    IF object.fetch = "NotFound" THEN FALSE
    ELSE IF object.meta = "" THEN FALSE
    ELSE object.meta = object.hash

\* ArtifactStorage.downloadAndVerify: a rejected getObject and an 'error' of
\* the stream reject, 'end' rejects on a hash mismatch and resolves with the
\* bytes otherwise; a stream that neither ends nor fails settles nothing.
downloadAndVerify(object) ==
    IF object.fetch \in {"NotFound", "ReadError"} THEN "rejected"
    ELSE IF object.fetch = "Timeout" THEN "pending"
    ELSE IF object.fetch # object.hash THEN "rejected"
    ELSE "resolved"

\* a call of verifyArtifact for artifact i
ArtifactStorage_verifyArtifact(i) ==
    /\ verifyArtifactResult[i] = "none"
    /\ verifyArtifactResult' =
         [verifyArtifactResult EXCEPT ![i] = IF verifyArtifact(artifactRefs[i]) THEN "true" ELSE "false"]
    /\ UNCHANGED <<now, historyCap, regVars, notStorageVars, downloadAndVerifyResult>>

\* a call of downloadAndVerify for artifact i, up to the settling of its promise
ArtifactStorage_downloadAndVerify(i) ==
    /\ downloadAndVerifyResult[i] = "none"
    /\ downloadAndVerify(artifactRefs[i]) # "pending"
    /\ downloadAndVerifyResult' =
         [downloadAndVerifyResult EXCEPT ![i] = downloadAndVerify(artifactRefs[i])]
    /\ UNCHANGED <<now, historyCap, regVars, notStorageVars, verifyArtifactResult>>

\* The store holds MaxArtifacts objects, each of any content and metadata;
\* no verifier runs.
InitStorage ==
    /\ RegistryInit
    /\ artifactRefs \in [1..MaxArtifacts -> StoredObjectArgs]
    /\ verifyResult = [pass |-> TRUE, reasons |-> <<>>]
    /\ credIndex = 1
    /\ fullPass = TRUE
    /\ fullReasons = <<>>
    /\ predictions = <<>>
    /\ materialized = "idle"
    /\ artifactIndex = 1
    /\ overallPass = TRUE
    /\ checks = <<>>
    /\ artifactIntegrity = <<>>
    /\ verification = <<>>
    /\ NoBenchmarkRun
    /\ verifyArtifactResult = [i \in 1..MaxArtifacts |-> "none"]
    /\ downloadAndVerifyResult = [i \in 1..MaxArtifacts |-> "none"]

NextStorage ==
    \/ \E i \in 1..MaxArtifacts : ArtifactStorage_verifyArtifact(i)
    \/ \E i \in 1..MaxArtifacts : ArtifactStorage_downloadAndVerify(i)

SpecStorage == InitStorage /\ [][NextStorage]_vars

\* ------------------------------------------------ the single-writer queue
\* MaxClients concurrent clients run MaxOps operations each, as in
\* benchmarkThroughput; a write task makes WriteCalls calls of the chain
\* client (registerMaterial and two issueCredential).
MaxClients == 2
MaxOps == 2
WriteCalls == 3
Clients == 1..MaxClients
Settled == {"fulfilled", "rejected"}

\* the promise a task was chained on has settled; this.queue is the caught
\* result of the task before it, which settles when that task does
PredecessorSettled(k) ==
    IF tasks[k].after = 0 THEN TRUE ELSE tasks[tasks[k].after].state \in Settled

PredecessorFulfilled(k) ==
    IF tasks[k].after = 0 THEN TRUE ELSE tasks[tasks[k].after].state = "fulfilled"

\* client c is between two operations of its loop
ClientLoops(c) ==
    /\ clients[c].awaiting = 0
    /\ ~clients[c].failed
    /\ clients[c].i < MaxOps

\* a read of the mixed workload: verifyMaterial, outside the queue
benchmarkThroughput_read(c) ==
    /\ ClientLoops(c)
    /\ clients' = [clients EXCEPT ![c].i = @ + 1]
    /\ UNCHANGED <<now, historyCap, regVars, notQueueVars, tasks, queue, newMaterialIds>>

WriteQueue_enqueue_KeepsQueue(c) ==
    /\ ClientLoops(c)
    /\ tasks' = Append(tasks, [client |-> c, after |-> queue, state |-> "queued", calls |-> 0])
    /\ queue' = queue
    /\ clients' = [clients EXCEPT ![c].awaiting = Len(tasks) + 1]
    /\ UNCHANGED <<now, historyCap, regVars, notQueueVars, newMaterialIds>>

\* WriteQueue.enqueue, called by client c for a write: the body has no await,
\* so it runs in one piece: result = this.queue.then(fn, fn), this.queue =
\* result.catch(...), and the client awaits result
WriteQueue_enqueue(c) ==
    /\ ClientLoops(c)
    /\ tasks' = Append(tasks, [client |-> c, after |-> queue, state |-> "queued", calls |-> 0])
    /\ queue' = Len(tasks) + 1
    /\ clients' = [clients EXCEPT ![c].awaiting = Len(tasks) + 1]
    /\ UNCHANGED <<now, historyCap, regVars, notQueueVars, newMaterialIds>>

WriteQueue_start_OnFulfilledOnly(k) ==
    /\ k \in 1..Len(tasks)
    /\ tasks[k].state = "queued"
    /\ PredecessorFulfilled(k)
    /\ tasks' = [tasks EXCEPT ![k].state = "running"]
    /\ UNCHANGED <<now, historyCap, regVars, notQueueVars, queue, clients, newMaterialIds>>

\* the reaction of then(fn, fn): fn is called once the promise it was chained
\* on has settled, fulfilled or rejected
WriteQueue_start(k) ==
    /\ k \in 1..Len(tasks)
    /\ tasks[k].state = "queued"
    /\ PredecessorSettled(k)
    /\ tasks' = [tasks EXCEPT ![k].state = "running"]
    /\ UNCHANGED <<now, historyCap, regVars, notQueueVars, queue, clients, newMaterialIds>>

\* one awaited call of a running write task comes back; after the last one
\* the task returns and its promise is fulfilled
WriteTask_call(k) ==
    /\ k \in 1..Len(tasks)
    /\ tasks[k].state = "running"
    /\ tasks' = [tasks EXCEPT ![k].calls = @ + 1,
                              ![k].state = IF tasks[k].calls + 1 = WriteCalls
                                           THEN "fulfilled" ELSE "running"]
    /\ UNCHANGED <<now, historyCap, regVars, notQueueVars, queue, clients, newMaterialIds>>

\* a running write task throws and its promise is rejected
WriteTask_throw(k) ==
    /\ k \in 1..Len(tasks)
    /\ tasks[k].state = "running"
    /\ tasks' = [tasks EXCEPT ![k].state = "rejected"]
    /\ UNCHANGED <<now, historyCap, regVars, notQueueVars, queue, clients, newMaterialIds>>

\* the await of the client on the result of its write ends: with the new
\* identifier, pushed to newMaterialIds, or with the exception, which ends
\* the loop of this client
benchmarkThroughput_resume(c) ==
    /\ clients[c].awaiting # 0
    /\ tasks[clients[c].awaiting].state \in Settled
    /\ IF tasks[clients[c].awaiting].state = "fulfilled"
       THEN /\ newMaterialIds' = Append(newMaterialIds, clients[c].awaiting)
            /\ clients' = [clients EXCEPT ![c].awaiting = 0, ![c].i = @ + 1]
       ELSE /\ clients' = [clients EXCEPT ![c].awaiting = 0, ![c].failed = TRUE]
            /\ UNCHANGED newMaterialIds
    /\ UNCHANGED <<now, historyCap, regVars, notQueueVars, tasks, queue>>

InitQueue ==
    /\ RegistryInit
    /\ artifactRefs = <<>>
    /\ verifyResult = [pass |-> TRUE, reasons |-> <<>>]
    /\ credIndex = 1
    /\ fullPass = TRUE
    /\ fullReasons = <<>>
    /\ predictions = <<>>
    /\ materialized = "idle"
    /\ artifactIndex = 1
    /\ overallPass = TRUE
    /\ checks = <<>>
    /\ artifactIntegrity = <<>>
    /\ verification = <<>>
    /\ NoStorageCall
    /\ tasks = <<>>
    /\ queue = 0
    /\ clients = [c \in Clients |-> [i |-> 0, awaiting |-> 0, failed |-> FALSE]]
    /\ newMaterialIds = <<>>
    /\ receipts = <<>>
    /\ opResults = <<>>
    /\ aborted = FALSE

NextQueue ==
    \/ \E c \in Clients : benchmarkThroughput_read(c)
    \/ \E c \in Clients : WriteQueue_enqueue(c)
    \/ \E k \in 1..(MaxClients * MaxOps) : WriteQueue_start(k)
    \/ \E k \in 1..(MaxClients * MaxOps) : WriteTask_call(k)
    \/ \E k \in 1..(MaxClients * MaxOps) : WriteTask_throw(k)
    \/ \E c \in Clients : benchmarkThroughput_resume(c)

SpecQueue == InitQueue /\ [][NextQueue]_vars

\* The event loop runs every reaction that is due, and every write task
\* goes on until it returns or throws.
SpecQueueFair ==
    /\ InitQueue
    /\ [][NextQueue]_vars
    /\ WF_vars(\E k \in 1..(MaxClients * MaxOps) : WriteQueue_start(k))
    /\ WF_vars(\E k \in 1..(MaxClients * MaxOps) : WriteTask_call(k))
    /\ WF_vars(\E c \in Clients : benchmarkThroughput_resume(c))

\* ------------------------------------------- the harness and the finality
\* What one call of registerMaterial meets: whether the client is connected,
\* and what executeWithMetrics does: it throws (a revert, a transport error)
\* or hands back a receipt, with or without the block number and the status
\* (NoValue for a field that is null or undefined, status 1 for success).
MaxIterations == 3
NoValue == -1
ReceiptArgs ==
    {[threw |-> TRUE, blockNumber |-> NoValue, status |-> NoValue]}
       \cup [threw : {FALSE}, blockNumber : {NoValue, 7}, status : {NoValue, 0, 1}]
CallArgs == [connected : BOOLEAN, receipt : ReceiptArgs]

\* PureChainClient.assertFinality: does it throw for this receipt
assertFinality(receipt) ==
    IF receipt.blockNumber = NoValue THEN "throws"
    ELSE IF receipt.status # NoValue /\ receipt.status # 1 THEN "throws"
    ELSE "ok"

\* PureChainClient.registerMaterial: ensureConnected throws outside the try;
\* inside it, an exception of executeWithMetrics or of assertFinality is
\* caught and becomes the result FAILED
PureChainClient_registerMaterial(call) ==
    IF ~call.connected THEN [kind |-> "threw", status |-> "", materialId |-> ""]
    ELSE IF call.receipt.threw \/ assertFinality(call.receipt) = "throws"
         THEN [kind |-> "returned", status |-> "FAILED", materialId |-> ""]
    ELSE [kind |-> "returned", status |-> "SUCCESS", materialId |-> "bio"]

\* One registerMaterial of the loop of benchmarkLatency, through the wrapper
\* of main: the wrapper reads the materialId of the result ('' when there is
\* none) and the harness records the latency and goes on; an exception of the
\* client leaves the loop and ends the run.
benchmarkLatency_registerMaterial(call) ==
    /\ ~aborted
    /\ Len(receipts) < MaxIterations
    /\ receipts' = Append(receipts, call)
    /\ LET result == PureChainClient_registerMaterial(call)
       IN  IF result.kind = "threw"
           THEN /\ aborted' = TRUE
                /\ UNCHANGED opResults
           ELSE /\ opResults' = Append(opResults, [latencyRecorded |-> TRUE,
                                                   materialId |-> result.materialId])
                /\ UNCHANGED aborted
    /\ UNCHANGED <<now, historyCap, regVars, notHarnessVars>>

InitHarness ==
    /\ RegistryInit
    /\ artifactRefs = <<>>
    /\ verifyResult = [pass |-> TRUE, reasons |-> <<>>]
    /\ credIndex = 1
    /\ fullPass = TRUE
    /\ fullReasons = <<>>
    /\ predictions = <<>>
    /\ materialized = "idle"
    /\ artifactIndex = 1
    /\ overallPass = TRUE
    /\ checks = <<>>
    /\ artifactIntegrity = <<>>
    /\ verification = <<>>
    /\ NoStorageCall
    /\ NoBenchmarkRun

NextHarness ==
    \E call \in CallArgs : benchmarkLatency_registerMaterial(call)

SpecHarness == InitHarness /\ [][NextHarness]_vars

\* ------------------------------------ the registry under credential revocation
\* One material made by labA, credentials of the admin with two expiry times
\* beyond the last timestamp, revocations by the admin and by labA, and
\* quarantine by the admin, followed for MaxRevokeHistory history entries.
MaxRevokeHistory == 5
RevokeIssuerCallers == {"admin"}
RevokeCredentialTypes == {"IDENTITY", "QC_MYCO"}
RevokeValidUntilArgs == {MaxTime + 1, MaxTime + 2}
RevokeCallers == {"admin", "labA"}
RevokeCredentialIds == 1..(MaxRevokeHistory - 1)
RevokeStatusArgs == {"QUARANTINED"}

InitRevoke ==
    /\ now = 1
    /\ historyCap = MaxRevokeHistory
    /\ admin = "admin"
    /\ issuerPermissions =
         [a \in Addr |-> IF a = "admin" THEN IssuerPermission(TRUE, TRUE, TRUE, TRUE)
                                        ELSE IssuerPermission(FALSE, FALSE, FALSE, FALSE)]
    /\ issuerRevokedAt = [a \in Addr |-> 0]
    /\ materialCount = 0
    /\ materials = <<>>
    /\ credentialCount = 0
    /\ credentials = <<>>
    /\ materialCredentials = [m \in MaterialIdArgs |-> <<>>]
    /\ transferCount = 0
    /\ materialTransfers = [m \in MaterialIdArgs |-> <<>>]
    /\ materialHistory = [m \in MaterialIdArgs |-> <<>>]
    /\ NoOffChainRun

NextRevoke ==
    \/ Tick
    \/ \E caller \in Registrants : registerMaterial(caller, "CELL_LINE", 1)
    \/ \E caller \in RevokeIssuerCallers, m \in MaterialIdArgs, t \in RevokeCredentialTypes,
          vu \in RevokeValidUntilArgs :
          issueCredential(caller, m, t, 1, vu, 1)
    \/ \E caller \in RevokeCallers, c \in RevokeCredentialIds : revokeCredential(caller, c)
    \/ \E caller \in RevokeIssuerCallers, m \in MaterialIdArgs, st \in RevokeStatusArgs :
          setStatusByAuthority(caller, m, st, 1)

SpecRevoke == InitRevoke /\ [][NextRevoke]_vars

\* ===================================================================== claims
\* ------------------------------------ vocabulary of the claims, in their words
ExistingMaterials == 1..materialCount

\* the credentials stored on a material
CredsOf(m) == {credentials[materialCredentials[m][i]] : i \in 1..Len(materialCredentials[m])}

UnacceptedTransfers(m) ==
    {i \in 1..Len(materialTransfers[m]) : ~materialTransfers[m][i].accepted}

QcCredentials(m) == {c \in CredsOf(m) : c.credType = "QC_MYCO" /\ ~c.revoked}

RevokedAtOrBefore(c) ==
    issuerRevokedAt[c.issuer] # 0 /\ issuerRevokedAt[c.issuer] <= c.issuedAt

ValidIdentities(m) ==
    {c \in CredsOf(m) : c.credType = "IDENTITY" /\ ~c.revoked /\ ~RevokedAtOrBefore(c)}

\* c is the one non-revoked QC_MYCO credential of m with the greatest issuedAt
IsTheLatestQc(m, c) ==
    /\ c \in QcCredentials(m)
    /\ \A d \in QcCredentials(m) : d # c => d.issuedAt < c.issuedAt

\* c is the most recent non-revoked QC_MYCO credential of m: none has a greater
\* issuedAt, and none with the same issuedAt was admitted after it
IsMostRecentQc(m, c) ==
    /\ c \in QcCredentials(m)
    /\ \A d \in QcCredentials(m) :
          \/ d.issuedAt < c.issuedAt
          \/ d.issuedAt = c.issuedAt /\ d.credentialId <= c.credentialId

HasReason(m, at, r) ==
    \E i \in 1..Len(verifyMaterialAt(m, at).reasons) : verifyMaterialAt(m, at).reasons[i] = r

\* a step in which revokeIssuer(b) took effect
RevokeIssuerStep(b) ==
    /\ now' = now
    /\ issuerRevokedAt'[b] = now
    /\ ~issuerPermissions'[b].isApproved
    /\ issuerRevokedAt[b] # now \/ issuerPermissions[b].isApproved

\* the start of scenario S2: material m passes verification now, q issued one
\* of its QC_MYCO credentials and is still an approved QC issuer, and one day
\* (one unit of time) before now is a non-zero time
S2Start(m, q) ==
    /\ verifyMaterial(m).pass
    /\ \E c \in QcCredentials(m) : c.issuer = q
    /\ onlyApprovedIssuer(q) = "ok" /\ issuerPermissions[q].canIssueQC
    /\ now - 1 >= 1

\* ------------------------------------------------------------------------ C1
\* C1: once a material's status is REVOKED no operation changes it: every step
\* from a state where a material is REVOKED leaves that material REVOKED.
C1_RevokedIsTerminal ==
    [][\A m \in ExistingMaterials :
          materials[m].status = "REVOKED" => materials'[m].status = "REVOKED"]_vars

\* ------------------------------------------------------------------------ C2
\* C2: verification passes exactly when the status is ACTIVE, some IDENTITY
\* credential is non-revoked and not issued at or after its issuer's
\* revocation, the most recent non-revoked QC_MYCO credential exists, its
\* issuer was not revoked at or before its issuedAt and it has not
\* validUntil < atTime, and no transfer is unaccepted.
C2_PassIffFourConditions ==
    \A m \in ExistingMaterials, at \in AtTimes :
        verifyMaterialAt(m, at).pass <=>
            /\ materials[m].status = "ACTIVE"
            /\ ValidIdentities(m) # {}
            /\ \E c \in QcCredentials(m) :
                  IsMostRecentQc(m, c) /\ ~RevokedAtOrBefore(c) /\ ~(c.validUntil < at)
            /\ UnacceptedTransfers(m) = {}

\* ------------------------------------------------------------------------ C3
\* C3 as stated: if the non-revoked QC_MYCO credential with the greatest
\* issuedAt has validUntil < atTime, verification fails and reports QC_EXPIRED.
\* (Two credentials sharing the greatest issuedAt are the subject of C37.)
C3_LatestQcExpired ==
    \A m \in ExistingMaterials, at \in AtTimes : \A c \in QcCredentials(m) :
        (IsTheLatestQc(m, c) /\ c.validUntil < at)
        => ~verifyMaterialAt(m, at).pass /\ HasReason(m, at, "QC_EXPIRED")

\* C3 amended: if the non-revoked QC_MYCO credential with the greatest issuedAt
\* has validUntil < atTime and its issuer was not revoked at or before its
\* issuedAt, verification fails and reports QC_EXPIRED, whatever older
\* credentials the material holds.
C3_LatestQcExpiredIssuerTrusted ==
    \A m \in ExistingMaterials, at \in AtTimes : \A c \in QcCredentials(m) :
        (IsTheLatestQc(m, c) /\ c.validUntil < at /\ ~RevokedAtOrBefore(c))
        => ~verifyMaterialAt(m, at).pass /\ HasReason(m, at, "QC_EXPIRED")

\* C3 witness: the latest QC has run out at atTime while an older non-revoked
\* QC is still inside its validity window, and QC_EXPIRED is reported.
C3_Witness ==
    \E m \in ExistingMaterials, at \in AtTimes : \E c, d \in QcCredentials(m) :
        /\ IsTheLatestQc(m, c) /\ ~RevokedAtOrBefore(c)
        /\ c.validUntil # 0 /\ c.validUntil < at
        /\ d.issuedAt < c.issuedAt /\ d.validUntil >= at /\ ~RevokedAtOrBefore(d)
        /\ HasReason(m, at, "QC_EXPIRED")

\* ------------------------------------------------------------------------ C4
\* C4 as stated: every stored credential was admitted from an approved issuer,
\* and its issuer's revocation time is 0 or strictly greater than its issuedAt.
C4_RevokedStrictlyAfterIssuance ==
    \A m \in ExistingMaterials : \A c \in CredsOf(m) :
        /\ c.issuerApprovedAtIssue
        /\ issuerRevokedAt[c.issuer] = 0 \/ issuerRevokedAt[c.issuer] > c.issuedAt

\* C4 amended: every stored credential was admitted from an approved issuer,
\* and its issuer's revocation time is 0 or greater than or equal to its
\* issuedAt (equal when the issuer is revoked in the timestamp of the issuance).
C4_RevokedNotBeforeIssuance ==
    \A m \in ExistingMaterials : \A c \in CredsOf(m) :
        /\ c.issuerApprovedAtIssue
        /\ issuerRevokedAt[c.issuer] = 0 \/ issuerRevokedAt[c.issuer] >= c.issuedAt

\* C4 witness: an issuer revoked in the timestamp in which it issued one
\* credential, after it had issued another at an earlier timestamp.
C4_Witness ==
    \E m \in ExistingMaterials : \E c, d \in CredsOf(m) :
        /\ c.issuer = d.issuer
        /\ ~issuerPermissions[c.issuer].isApproved
        /\ issuerRevokedAt[c.issuer] = c.issuedAt
        /\ issuerRevokedAt[c.issuer] > d.issuedAt

\* ------------------------------------------------------------------------ C5
\* C5: once an issuer that had been authorized (it holds the capability for
\* the credential type) is revoked, issueCredential called by it for an
\* existing material with valid arguments reverts with IssuerRevoked.
C5_RevokedIssuerGetsIssuerRevoked ==
    \A b \in Addr, m \in ExistingMaterials, t \in CredentialType :
        ( /\ ~issuerPermissions[b].isApproved
          /\ issuerRevokedAt[b] # 0
          /\ HasCapability(issuerPermissions[b], t) )
        => issueCredentialErr(b, m, t, 1, 0, 1) = "IssuerRevoked"

\* ------------------------------------------------------------------------ C6
\* C6: a revocation of issuer b leaves the result of verifyMaterial of every
\* material unchanged, provided every credential b put on the material was
\* issued before the timestamp of the revocation.
C6_RevokeIssuerKeepsResult ==
    [][\A b \in Addr, m \in ExistingMaterials :
          ( /\ RevokeIssuerStep(b)
            /\ \A c \in CredsOf(m) : c.issuer = b => c.issuedAt < now )
          => verifyMaterial(m)' = verifyMaterial(m)]_vars

\* ------------------------------------------------------------------------ C7
\* C7: in every reachable state every material has at most one transfer that
\* is not accepted.
C7_AtMostOnePending ==
    \A m \in ExistingMaterials : Cardinality(UnacceptedTransfers(m)) <= 1

\* C7 witness: a second transfer was initiated after the first was accepted, so
\* the check for a pending transfer had a transfer list to look at.
C7_Witness ==
    \E m \in ExistingMaterials :
        /\ Len(materialTransfers[m]) = 2
        /\ materialTransfers[m][1].accepted
        /\ ~materialTransfers[m][2].accepted

\* ------------------------------------------------------------------------ C8
\* C8: whatever the material's status and the reason hash, setStatusByOwner
\* called by the owner with REVOKED reverts with NotAuthorizedForStatus, and no
\* such call can take a step that changes the status or the history.
C8_OwnerCannotRevoke ==
    \A m \in ExistingMaterials, h \in Hashes :
        /\ setStatusByOwnerErr(materials[m].owner, m, "REVOKED") = "NotAuthorizedForStatus"
        /\ ~ENABLED (/\ setStatusByOwner(materials[m].owner, m, "REVOKED", h)
                     /\ <<materials, materialHistory>>' # <<materials, materialHistory>>)

\* C8 witness: a material the owner has quarantined, with room in the history
\* for one more entry: the owner may set it ACTIVE again, and REVOKED is refused
\* on the new status alone.
C8_Witness ==
    \E m \in ExistingMaterials :
        /\ materials[m].status = "QUARANTINED"
        /\ Len(materialHistory[m]) < MaxHistory
        /\ setStatusByOwnerErr(materials[m].owner, m, "REVOKED") = "NotAuthorizedForStatus"
        /\ setStatusByOwnerErr(materials[m].owner, m, "ACTIVE") = "ok"

\* ------------------------------------------------------------------------ C9
\* C9: when the non-revoked QC_MYCO credential with the greatest issuedAt has
\* validUntil = 0 and its issuer is not revoked, verification reports no
\* QC_EXPIRED at any time.
C9_ZeroValidUntilNeverExpires ==
    \A m \in ExistingMaterials, at \in AtTimes : \A c \in QcCredentials(m) :
        (IsTheLatestQc(m, c) /\ c.validUntil = 0 /\ issuerRevokedAt[c.issuer] = 0)
        => ~HasReason(m, at, "QC_EXPIRED")

credVars == <<credentialCount, credentials, materialCredentials>>

\* C11 as stated: issueCredential succeeds only if at the call the caller is
\* approved, its issuerRevokedAt is 0 and it holds the capability flag of the
\* requested type; a caller without approval reverts with NotApprovedIssuer,
\* an approved caller without the capability reverts with
\* NotAuthorizedForCredentialType, whatever the other arguments of the call on
\* an existing material, and no call of either kind can take a step that
\* creates a credential.
C11_IssueNeedsApprovalAndCapability ==
    \A caller \in Addr, m \in ExistingMaterials, t \in CredentialType, ch \in Hashes,
       vu \in ValidUntilArgs, ah \in Hashes :
        /\ issueCredentialErr(caller, m, t, ch, vu, ah) = "ok"
              => /\ issuerPermissions[caller].isApproved
                 /\ issuerRevokedAt[caller] = 0
                 /\ HasCapability(issuerPermissions[caller], t)
        /\ ~issuerPermissions[caller].isApproved
              => issueCredentialErr(caller, m, t, ch, vu, ah) = "NotApprovedIssuer"
        /\ (issuerPermissions[caller].isApproved /\ ~HasCapability(issuerPermissions[caller], t))
              => issueCredentialErr(caller, m, t, ch, vu, ah) = "NotAuthorizedForCredentialType"
        /\ ( \/ ~issuerPermissions[caller].isApproved
             \/ ~HasCapability(issuerPermissions[caller], t) )
              => ~ENABLED (/\ issueCredential(caller, m, t, ch, vu, ah)
                           /\ credVars' # credVars)

\* C11 amended: issueCredential succeeds only if at the call the caller is
\* approved, its issuerRevokedAt is 0 and it holds the capability flag of the
\* requested type; a caller without approval reverts with NotApprovedIssuer
\* whatever the arguments; an approved caller without the capability reverts
\* with NotAuthorizedForCredentialType when the material exists, both hashes
\* are non-zero and validUntil is 0 or later than now (those checks come first
\* and report their own error otherwise); and no call of either kind can take
\* a step that creates a credential.
C11_IssueNeedsApprovalAndCapabilityValidArgs ==
    \A caller \in Addr, m \in MaterialIdArgs, t \in CredentialType, ch \in Hashes,
       vu \in ValidUntilArgs, ah \in Hashes :
        /\ issueCredentialErr(caller, m, t, ch, vu, ah) = "ok"
              => /\ issuerPermissions[caller].isApproved
                 /\ issuerRevokedAt[caller] = 0
                 /\ HasCapability(issuerPermissions[caller], t)
        /\ ~issuerPermissions[caller].isApproved
              => issueCredentialErr(caller, m, t, ch, vu, ah) = "NotApprovedIssuer"
        /\ ( /\ issuerPermissions[caller].isApproved
             /\ ~HasCapability(issuerPermissions[caller], t)
             /\ materialExists(m) /\ ch # ZERO_HASH /\ ah # ZERO_HASH
             /\ (vu = 0 \/ vu > now) )
              => issueCredentialErr(caller, m, t, ch, vu, ah) = "NotAuthorizedForCredentialType"
        /\ ( \/ ~issuerPermissions[caller].isApproved
             \/ ~HasCapability(issuerPermissions[caller], t) )
              => ~ENABLED (/\ issueCredential(caller, m, t, ch, vu, ah)
                           /\ credVars' # credVars)

\* C11 witness: an approved issuer has put a credential on a material whose
\* history has room for another, and it lacks the capability for one type, so
\* a call of it for that type and a call of a never-approved address are both
\* refused where a call for a type it holds would be admitted; with a zero
\* commitment hash its call for the missing type reports the hash instead.
C11_Witness ==
    \E q \in Addr, m \in ExistingMaterials, t \in CredentialType :
        /\ q # admin
        /\ issuerPermissions[q].isApproved
        /\ ~HasCapability(issuerPermissions[q], t)
        /\ \E c \in CredsOf(m) : c.issuer = q
        /\ Len(materialHistory[m]) < MaxHistory
        /\ issueCredentialErr(q, m, "QC_MYCO", 1, 0, 1) = "ok"
        /\ issueCredentialErr(q, m, t, 1, 0, 1) = "NotAuthorizedForCredentialType"
        /\ \E a \in Addr : issueCredentialErr(a, m, t, 1, 0, 1) = "NotApprovedIssuer"
        /\ issueCredentialErr(q, m, t, ZERO_HASH, 0, 1) = "InvalidCommitmentHash"

\* ----------------------------------------------------------------------- C12
\* the state of the issuers: approval, capability flags and revocation times
issuerVars == <<issuerPermissions, issuerRevokedAt>>

\* C12: authorizeIssuer and revokeIssuer pass their check only for the admin;
\* for every other caller the revert is OnlyAdmin and no such call, whatever
\* the issuer and the flags, can take a step that changes any issuer's
\* approval, flags or revocation time; and no step of the registry turns an
\* unapproved address into an approved one unless it is the step of an
\* authorizeIssuer call by the admin.
C12_OnlyAdminManagesIssuers ==
    /\ \A caller \in Addr :
          /\ onlyAdmin(caller) = "ok" => caller = admin
          /\ caller # admin =>
                /\ onlyAdmin(caller) = "OnlyAdmin"
                /\ \A issuer \in Addr :
                      /\ ~ENABLED (/\ revokeIssuer(caller, issuer)
                                   /\ issuerVars' # issuerVars)
                      /\ \A i, q, u \in BOOLEAN :
                            ~ENABLED (/\ authorizeIssuer(caller, issuer, i, q, u)
                                      /\ issuerVars' # issuerVars)
    /\ ~ENABLED (/\ Next
                 /\ \E a \in Addr : /\ ~issuerPermissions[a].isApproved
                                    /\ issuerPermissions'[a].isApproved
                 /\ ~\E issuer \in Addr : \E i, q, u \in BOOLEAN :
                        authorizeIssuer(admin, issuer, i, q, u))

\* C12 witness: an address that the admin authorized and then revoked (it keeps
\* the flags of the authorization and carries a revocation time), while another
\* address that is not the admin is refused by the check.
C12_Witness ==
    \E b \in Addr, caller \in Addr :
        /\ b # admin /\ caller # admin
        /\ issuerPermissions[b].canIssueQC
        /\ ~issuerPermissions[b].isApproved
        /\ issuerRevokedAt[b] # 0
        /\ onlyAdmin(caller) = "OnlyAdmin"

\* ----------------------------------------------------------------------- C13
\* caller is the admin, or an issuer that is approved now, carries no
\* revocation time and holds the QC capability
IsStatusAuthority(caller) ==
    \/ caller = admin
    \/ /\ issuerPermissions[caller].isApproved
       /\ issuerRevokedAt[caller] = 0
       /\ issuerPermissions[caller].canIssueQC

\* C13: on an existing material setStatusByAuthority succeeds only for the
\* admin or an approved, non-revoked issuer with the QC capability; for every
\* other caller, whatever the new status and the reason hash, the revert is
\* NotAuthorizedForStatus and no such call can take a step that changes the
\* material.
C13_StatusAuthorityOnly ==
    \A caller \in Addr, m \in ExistingMaterials, s \in MaterialStatus, h \in Hashes :
        /\ setStatusByAuthorityErr(caller, m, s) = "ok" => IsStatusAuthority(caller)
        /\ ~IsStatusAuthority(caller) =>
              /\ setStatusByAuthorityErr(caller, m, s) = "NotAuthorizedForStatus"
              /\ ~ENABLED (/\ setStatusByAuthority(caller, m, s, h)
                           /\ materials' # materials)

\* C13 witness: a material that an authority has set REVOKED and whose history
\* has room for another entry, at a time when one issuer holds the QC flag
\* but was revoked, or is approved without the QC flag, and the material's
\* owner has no authority either: both are refused where the admin is not.
C13_Witness ==
    \E m \in ExistingMaterials, q \in Addr :
        /\ materials[m].status = "REVOKED"
        /\ Len(materialHistory[m]) < MaxHistory
        /\ q # admin /\ q # materials[m].owner
        /\ \/ issuerPermissions[q].canIssueQC /\ issuerRevokedAt[q] # 0
           \/ issuerPermissions[q].isApproved /\ ~issuerPermissions[q].canIssueQC
        /\ setStatusByAuthorityErr(q, m, "ACTIVE") = "NotAuthorizedForStatus"
        /\ setStatusByAuthorityErr(materials[m].owner, m, "ACTIVE") = "NotAuthorizedForStatus"
        /\ setStatusByAuthorityErr(admin, m, "ACTIVE") = "ok"

\* ----------------------------------------------------------------------- C14
\* the call takes the status of m from ACTIVE to QUARANTINED or back, and the
\* caller is the owner of m
IsOwnerTransition(caller, m, s) ==
    /\ caller = materials[m].owner
    /\ \/ materials[m].status = "ACTIVE" /\ s = "QUARANTINED"
       \/ materials[m].status = "QUARANTINED" /\ s = "ACTIVE"

\* C14: on an existing material setStatusByOwner succeeds only when the caller
\* is the material's owner and the call takes the status from ACTIVE to
\* QUARANTINED or from QUARANTINED to ACTIVE; every other call reverts, and no
\* such call can take a step that changes the state.
C14_OwnerTransitionsOnly ==
    \A caller \in Addr, m \in ExistingMaterials, s \in MaterialStatus, h \in Hashes :
        /\ setStatusByOwnerErr(caller, m, s) = "ok" => IsOwnerTransition(caller, m, s)
        /\ ~IsOwnerTransition(caller, m, s) =>
              /\ setStatusByOwnerErr(caller, m, s) # "ok"
              /\ ~ENABLED (setStatusByOwner(caller, m, s, h) /\ vars' # vars)

\* ----------------------------------------------------------------------- C15
\* the most recent transfer of m is not accepted
LatestTransferUnaccepted(m) ==
    /\ Len(materialTransfers[m]) > 0
    /\ ~materialTransfers[m][Len(materialTransfers[m])].accepted

\* C15 as stated: initiateTransfer succeeds only if the caller is the owner,
\* the status is ACTIVE and the material has no unaccepted transfer; whenever
\* the most recent transfer is unaccepted the owner's call reverts with
\* PendingTransferExists, and for no recipient and shipment hash can it take a
\* step that appends a transfer.
C15_PendingBlocksTransfer ==
    \A m \in ExistingMaterials :
        /\ \A caller \in Addr :
              initiateTransferErr(caller, m) = "ok"
              => /\ caller = materials[m].owner
                 /\ materials[m].status = "ACTIVE"
                 /\ UnacceptedTransfers(m) = {}
        /\ LatestTransferUnaccepted(m) =>
              /\ initiateTransferErr(materials[m].owner, m) = "PendingTransferExists"
              /\ \A to \in Addr, h \in Hashes :
                    ~ENABLED (/\ initiateTransfer(materials[m].owner, m, to, h)
                              /\ materialTransfers' # materialTransfers)

\* C15 amended: initiateTransfer succeeds only if the caller is the owner, the
\* status is ACTIVE and the material has no unaccepted transfer; whenever the
\* most recent transfer is unaccepted the owner's call reverts, with
\* PendingTransferExists if the material is ACTIVE and with MaterialNotActive
\* if it is not (the status is checked first), and for no recipient and
\* shipment hash can it take a step that appends a transfer.
C15_PendingBlocksTransferOfActive ==
    \A m \in ExistingMaterials :
        /\ \A caller \in Addr :
              initiateTransferErr(caller, m) = "ok"
              => /\ caller = materials[m].owner
                 /\ materials[m].status = "ACTIVE"
                 /\ UnacceptedTransfers(m) = {}
        /\ LatestTransferUnaccepted(m) =>
              /\ initiateTransferErr(materials[m].owner, m) =
                    IF materials[m].status = "ACTIVE" THEN "PendingTransferExists"
                                                      ELSE "MaterialNotActive"
              /\ \A to \in Addr, h \in Hashes :
                    ~ENABLED (/\ initiateTransfer(materials[m].owner, m, to, h)
                              /\ materialTransfers' # materialTransfers)

\* C15 witness: an ACTIVE material whose one transfer is not accepted and whose
\* history has room for another entry: the owner's second initiateTransfer is
\* refused by the check for a pending transfer.
C15_Witness ==
    \E m \in ExistingMaterials :
        /\ materials[m].status = "ACTIVE"
        /\ Len(materialTransfers[m]) = 1
        /\ LatestTransferUnaccepted(m)
        /\ Len(materialHistory[m]) < MaxHistory
        /\ initiateTransferErr(materials[m].owner, m) = "PendingTransferExists"

\* ----------------------------------------------------------------------- C16
\* C16: acceptTransfer succeeds only if the latest transfer of the material is
\* unaccepted and the caller is its toAddress; every other call (unknown
\* material, no transfers, latest transfer accepted, caller not the recipient)
\* reverts and cannot take a step that changes the state; and no step of the
\* registry removes a transfer or turns an accepted flag back to false.
C16_AcceptOnlyByRecipientOnce ==
    /\ \A caller \in Addr, m \in MaterialIdArgs :
          LET mayAccept == /\ LatestTransferUnaccepted(m)
                           /\ materialTransfers[m][Len(materialTransfers[m])].toAddress = caller
          IN /\ acceptTransferErr(caller, m) = "ok" => mayAccept
             /\ ~mayAccept =>
                   /\ acceptTransferErr(caller, m) # "ok"
                   /\ ~ENABLED (acceptTransfer(caller, m) /\ vars' # vars)
    /\ ~ENABLED (/\ Next
                 /\ \E m \in MaterialIdArgs :
                       \/ Len(materialTransfers'[m]) < Len(materialTransfers[m])
                       \/ \E i \in 1..Len(materialTransfers[m]) :
                             /\ materialTransfers[m][i].accepted
                             /\ ~materialTransfers'[m][i].accepted)

\* C16 witness: the recipient has accepted the latest transfer and owns the
\* material, whose history has room for another entry: a further acceptTransfer
\* of the same recipient is refused with NoPendingTransfer.
C16_Witness ==
    \E m \in ExistingMaterials :
        /\ Len(materialTransfers[m]) > 0
        /\ materialTransfers[m][Len(materialTransfers[m])].accepted
        /\ materials[m].owner = materialTransfers[m][Len(materialTransfers[m])].toAddress
        /\ Len(materialHistory[m]) < MaxHistory
        /\ acceptTransferErr(materials[m].owner, m) = "NoPendingTransfer"

\* ----------------------------------------------------------------------- C17
AcceptedTransfers(m) ==
    {i \in 1..Len(materialTransfers[m]) : materialTransfers[m][i].accepted}

\* the transfer of m accepted last: transfers are accepted in the order of the list
LastAccepted(m) ==
    materialTransfers[m][CHOOSE i \in AcceptedTransfers(m) :
                             \A j \in AcceptedTransfers(m) : j <= i]

\* C17: in every reachable state the owner of a material is the toAddress of
\* its most recently accepted transfer, or the address that registered it if
\* no transfer was accepted; and no step of the registry changes the owner of
\* a material unless it is the step of a successful acceptTransfer called by
\* the toAddress of the latest transfer, which becomes the owner.
C17_OwnerFollowsAcceptedTransfer ==
    /\ \A m \in ExistingMaterials :
          materials[m].owner = IF AcceptedTransfers(m) = {} THEN materials[m].registeredBy
                               ELSE LastAccepted(m).toAddress
    /\ ~ENABLED (/\ Next
                 /\ \E m \in ExistingMaterials :
                       /\ materials'[m].owner # materials[m].owner
                       /\ ~( /\ acceptTransferErr(materials'[m].owner, m) = "ok"
                             /\ materialTransfers[m][Len(materialTransfers[m])].toAddress
                                   = materials'[m].owner
                             /\ acceptTransfer(materials'[m].owner, m) ))

\* C17 witness: a material whose one transfer was accepted by an address other
\* than the one that registered it, and that address is the owner.
C17_Witness ==
    \E m \in ExistingMaterials :
        /\ AcceptedTransfers(m) # {}
        /\ LastAccepted(m).toAddress # materials[m].registeredBy
        /\ LastAccepted(m).fromAddress = materials[m].registeredBy
        /\ materials[m].owner = LastAccepted(m).toAddress

\* ----------------------------------------------------------------------- C18
StoredCredentials == 1..credentialCount

\* caller is the issuer of credential c or the admin
MayRevoke(caller, c) == caller = credentials[c].issuer \/ caller = admin

\* no step of the registry turns the revoked flag of a credential back to false
RevokedIsFinal ==
    ~ENABLED (/\ Next
              /\ \E c \in StoredCredentials : credentials[c].revoked /\ ~credentials'[c].revoked)

\* C18 as stated: revokeCredential succeeds only when the caller is the
\* credential's issuer or the admin and the credential is not revoked; a call
\* of any caller on a revoked credential reverts with CredentialAlreadyRevoked
\* and cannot take a step that changes the state; and no operation sets a
\* revoked flag back to false.
C18_RevokeOnceByIssuerOrAdmin ==
    /\ \A caller \in Addr, c \in StoredCredentials :
          /\ revokeCredentialErr(caller, c) = "ok"
                => MayRevoke(caller, c) /\ ~credentials[c].revoked
          /\ credentials[c].revoked =>
                /\ revokeCredentialErr(caller, c) = "CredentialAlreadyRevoked"
                /\ ~ENABLED (revokeCredential(caller, c) /\ vars' # vars)
    /\ RevokedIsFinal

\* C18 amended: revokeCredential succeeds only when the caller is the
\* credential's issuer or the admin and the credential is not revoked; on a
\* revoked credential the call of the issuer or the admin reverts with
\* CredentialAlreadyRevoked and the call of any other address with
\* NotAuthorizedToRevoke (the caller is checked first), no such call can take
\* a step that changes the state; and no operation sets a revoked flag back to
\* false.
C18_RevokeOnceAuthorizedCaller ==
    /\ \A caller \in Addr, c \in StoredCredentials :
          /\ revokeCredentialErr(caller, c) = "ok"
                => MayRevoke(caller, c) /\ ~credentials[c].revoked
          /\ credentials[c].revoked =>
                /\ revokeCredentialErr(caller, c) =
                      IF MayRevoke(caller, c) THEN "CredentialAlreadyRevoked"
                                              ELSE "NotAuthorizedToRevoke"
                /\ ~ENABLED (revokeCredential(caller, c) /\ vars' # vars)
    /\ RevokedIsFinal

\* C18 witness: a credential that was revoked, issued by an address other than
\* the admin, on a material whose history has room for another entry: a second
\* revokeCredential of its issuer and of the admin is refused as already
\* revoked, that of a third address as not authorized.
C18_Witness ==
    \E c \in StoredCredentials, a \in Addr :
        /\ credentials[c].revoked
        /\ credentials[c].issuer # admin
        /\ Len(materialHistory[credentials[c].materialId]) < MaxHistory
        /\ revokeCredentialErr(credentials[c].issuer, c) = "CredentialAlreadyRevoked"
        /\ revokeCredentialErr(admin, c) = "CredentialAlreadyRevoked"
        /\ revokeCredentialErr(a, c) = "NotAuthorizedToRevoke"

\* ----------------------------------------------------------------------- C19
\* C19: a call of any of the nine mutating functions that reverts, whatever
\* the caller and the arguments and whichever error it reports, cannot take a
\* step that changes the registry: materials, credentials, transfers, issuer
\* permissions and revocation times, the three counters and every history stay
\* as they were.
C19_FailureChangesNothing ==
    /\ \A caller \in Addr, issuer \in Addr :
          onlyAdmin(caller) # "ok" =>
             /\ ~ENABLED (revokeIssuer(caller, issuer) /\ regVars' # regVars)
             /\ \A i, q, u \in BOOLEAN :
                   ~ENABLED (authorizeIssuer(caller, issuer, i, q, u) /\ regVars' # regVars)
    /\ \A caller \in Addr, mt \in MaterialTypeArgs, h \in Hashes :
          registerMaterialErr(mt, h) # "ok" =>
             ~ENABLED (registerMaterial(caller, mt, h) /\ regVars' # regVars)
    /\ \A caller \in Addr, m \in MaterialIdArgs, s \in MaterialStatus, h \in Hashes :
          /\ setStatusByOwnerErr(caller, m, s) # "ok" =>
                ~ENABLED (setStatusByOwner(caller, m, s, h) /\ regVars' # regVars)
          /\ setStatusByAuthorityErr(caller, m, s) # "ok" =>
                ~ENABLED (setStatusByAuthority(caller, m, s, h) /\ regVars' # regVars)
    /\ \A caller \in Addr, m \in MaterialIdArgs, t \in CredentialType, ch \in Hashes,
          vu \in ValidUntilArgs, ah \in Hashes :
          issueCredentialErr(caller, m, t, ch, vu, ah) # "ok" =>
             ~ENABLED (issueCredential(caller, m, t, ch, vu, ah) /\ regVars' # regVars)
    /\ \A caller \in Addr, c \in CredentialIdArgs :
          revokeCredentialErr(caller, c) # "ok" =>
             ~ENABLED (revokeCredential(caller, c) /\ regVars' # regVars)
    /\ \A caller \in Addr, m \in MaterialIdArgs :
          /\ initiateTransferErr(caller, m) # "ok" =>
                \A to \in Addr, h \in Hashes :
                   ~ENABLED (initiateTransfer(caller, m, to, h) /\ regVars' # regVars)
          /\ acceptTransferErr(caller, m) # "ok" =>
                ~ENABLED (acceptTransfer(caller, m) /\ regVars' # regVars)

\* C19 witness: a material with a credential and a pending transfer, whose
\* history has room for another entry, on which calls of registerMaterial,
\* issueCredential and initiateTransfer each revert on a check of their own.
C19_Witness ==
    \E m \in ExistingMaterials :
        /\ Len(materialCredentials[m]) > 0
        /\ LatestTransferUnaccepted(m)
        /\ Len(materialHistory[m]) < MaxHistory
        /\ registerMaterialErr("BACTERIA", 1) = "InvalidMaterialType"
        /\ \E q \in Addr : issueCredentialErr(q, m, "QC_MYCO", 1, now, 1) = "InvalidValidUntil"
        /\ initiateTransferErr(materials[m].owner, m) = "PendingTransferExists"

\* ----------------------------------------------------------------------- C20
\* the step appends one entry to the history of one material and leaves the
\* entries already there, and the histories of the other materials, as they were
AppendsOneHistoryEntry ==
    \E m \in MaterialIdArgs :
        /\ Len(materialHistory'[m]) = Len(materialHistory[m]) + 1
        /\ SubSeq(materialHistory'[m], 1, Len(materialHistory[m])) = materialHistory[m]
        /\ \A k \in MaterialIdArgs \ {m} : materialHistory'[k] = materialHistory[k]

\* C20: every successful state-changing operation of the registry
\* (authorizeIssuer, revokeIssuer, registerMaterial, issueCredential,
\* revokeCredential, setStatusByOwner, setStatusByAuthority, initiateTransfer,
\* acceptTransfer) appends exactly one history entry: every step that changes
\* the registry appends one entry to one history.
C20_EveryMutationAppendsHistory ==
    [][regVars' # regVars => AppendsOneHistoryEntry]_vars

\* ----------------------------------------------------------------------- C21
\* sequence s is a prefix of sequence t
IsPrefix(s, t) == Len(s) <= Len(t) /\ SubSeq(t, 1, Len(s)) = s

\* C21: the history of every material is append-only: no step of the registry,
\* of a call that succeeds or of one that reverts, leads to a state in which
\* the history of a material before the step is not a prefix of its history
\* after the step.
C21_HistoryAppendOnly ==
    ~ENABLED (/\ Next
              /\ \E m \in MaterialIdArgs : ~IsPrefix(materialHistory[m], materialHistory'[m]))

\* C21 witness: a history of at least two entries of different kinds, with
\* room for another, on a material on which a call can succeed (the admin's
\* setStatusByAuthority) and a call can revert (the owner's with REVOKED).
C21_Witness ==
    \E m \in ExistingMaterials :
        /\ Len(materialHistory[m]) >= 2
        /\ Len(materialHistory[m]) < MaxHistory
        /\ materialHistory[m][1] # materialHistory[m][2]
        /\ setStatusByAuthorityErr(admin, m, "QUARANTINED") = "ok"
        /\ setStatusByOwnerErr(materials[m].owner, m, "REVOKED") # "ok"

\* ----------------------------------------------------------------------- C22
\* timestamps of blocks from the current one on, at which a call may be made
LaterTimes == {at \in AtTimes : at >= now}

C23_PassIffNoReasons ==
    \A m \in ExistingMaterials, at \in AtTimes :
        verifyMaterialAt(m, at).pass <=> verifyMaterialAt(m, at).reasons = <<>>

\* C23 witness: a material with a pending transfer on which verification
\* returns pass = false with TRANSFER_PENDING as its one reason, so that the
\* pass value rests on the last of the checks.
C23_Witness ==
    \E m \in ExistingMaterials, at \in AtTimes :
        /\ UnacceptedTransfers(m) # {}
        /\ verifyMaterialAt(m, at) = [pass |-> FALSE, reasons |-> <<"TRANSFER_PENDING">>]

\* ----------------------------------------------------------------------- C24
\* place of a reason code in the fixed order of evaluation: the status codes,
\* MISSING_IDENTITY, the QC codes, TRANSFER_PENDING
ReasonRank(r) ==
    CASE r \in {"MATERIAL_REVOKED", "MATERIAL_QUARANTINED"} -> 1
      [] r = "MISSING_IDENTITY" -> 2
      [] r \in {"QC_MISSING", "QC_ISSUER_REVOKED", "QC_EXPIRED"} -> 3
      [] r = "TRANSFER_PENDING" -> 4
      [] OTHER -> 0

\* C24: the reasons that verification returns are known codes in strictly
\* increasing place of the fixed order: at most one status code, then
\* MISSING_IDENTITY, then at most one QC code, then TRANSFER_PENDING, each code
\* at most once, whatever credentials and transfers the material holds.
C24_ReasonsInFixedOrder ==
    \A m \in ExistingMaterials, at \in AtTimes :
        LET rs == verifyMaterialAt(m, at).reasons IN
        /\ \A i \in 1..Len(rs) : ReasonRank(rs[i]) > 0
        /\ \A i, j \in 1..Len(rs) : i < j => ReasonRank(rs[i]) < ReasonRank(rs[j])

\* C24 witness: a material with a QC_MYCO credential and a pending transfer of
\* which verification returns four reasons, one of each place of the order.
C24_Witness ==
    \E m \in ExistingMaterials, at \in AtTimes :
        /\ QcCredentials(m) # {}
        /\ UnacceptedTransfers(m) # {}
        /\ Len(verifyMaterialAt(m, at).reasons) = 4

\* ----------------------------------------------------------------------- C25
\* C25: in every reachable state the metadataHash of every material, the
\* commitmentHash of every credential and the shipmentHash of every transfer
\* is non-zero.
C25_StoredHashesNonZero ==
    /\ \A m \in ExistingMaterials : materials[m].metadataHash # ZERO_HASH
    /\ \A c \in StoredCredentials : credentials[c].commitmentHash # ZERO_HASH
    /\ \A m \in ExistingMaterials : \A i \in 1..Len(materialTransfers[m]) :
          materialTransfers[m][i].shipmentHash # ZERO_HASH

\* ----------------------------------------------------------------------- C26
\* every stored credential has validUntil = 0 or validUntil > issuedAt
ValidUntilAfterIssuance ==
    \A c \in StoredCredentials :
        credentials[c].validUntil = 0 \/ credentials[c].validUntil > credentials[c].issuedAt

\* C26 as stated: every stored credential has validUntil = 0 or validUntil
\* strictly greater than its issuedAt, and issueCredential called with a
\* non-zero validUntil that is not later than now reverts with
\* InvalidValidUntil, whoever calls it for an existing material and whatever
\* the other arguments, and cannot take a step that stores a credential.
C26_ValidUntilAfterIssuance ==
    /\ ValidUntilAfterIssuance
    /\ \A caller \in Addr, m \in ExistingMaterials, t \in CredentialType, ch \in Hashes,
          vu \in ValidUntilArgs, ah \in Hashes :
          (vu # 0 /\ vu <= now) =>
             /\ issueCredentialErr(caller, m, t, ch, vu, ah) = "InvalidValidUntil"
             /\ ~ENABLED (/\ issueCredential(caller, m, t, ch, vu, ah)
                          /\ credVars' # credVars)

\* C26 amended: every stored credential has validUntil = 0 or validUntil
\* strictly greater than its issuedAt, and issueCredential called with a
\* non-zero validUntil that is not later than now reverts and cannot take a
\* step that stores a credential; the error is InvalidValidUntil when the
\* caller is an approved issuer, the material exists and both hashes are
\* non-zero, and the error of the earlier check that fails otherwise.
C26_ValidUntilAfterIssuanceChecked ==
    /\ ValidUntilAfterIssuance
    /\ \A caller \in Addr, m \in MaterialIdArgs, t \in CredentialType, ch \in Hashes,
          vu \in ValidUntilArgs, ah \in Hashes :
          (vu # 0 /\ vu <= now) =>
             /\ issueCredentialErr(caller, m, t, ch, vu, ah) # "ok"
             /\ ( /\ onlyApprovedIssuer(caller) = "ok" /\ materialExists(m)
                  /\ ch # ZERO_HASH /\ ah # ZERO_HASH )
                   <=> issueCredentialErr(caller, m, t, ch, vu, ah) = "InvalidValidUntil"
             /\ ~ENABLED (/\ issueCredential(caller, m, t, ch, vu, ah)
                          /\ credVars' # credVars)

\* C26 witness: a credential stored with a validUntil later than its issuedAt
\* and one stored with validUntil = 0, on a material whose history has room
\* for another entry, where the call of their issuer with validUntil = now is
\* refused with InvalidValidUntil.
C26_Witness ==
    \E c, d \in StoredCredentials :
        /\ credentials[c].validUntil > credentials[c].issuedAt
        /\ credentials[d].validUntil = 0
        /\ credentials[c].materialId = credentials[d].materialId
        /\ Len(materialHistory[credentials[c].materialId]) < MaxHistory
        /\ issueCredentialErr(credentials[c].issuer, credentials[c].materialId,
                              "QC_MYCO", 1, now, 1) = "InvalidValidUntil"

\* ----------------------------------------------------------------------- C27
\* the transfers of all materials, each named by its material and its place
AllTransfers ==
    {x \in (DOMAIN materialTransfers) \X (1..MaxHistory) : x[2] <= Len(materialTransfers[x[1]])}

\* C27: identifiers are never reused: in every state reached by calls that
\* succeed and calls that revert, no two materials have the same materialId,
\* no two credentials the same credentialId and no two transfers, of one
\* material or of two, the same transferId; and no step makes materialCount,
\* credentialCount or transferCount smaller.
C27_IdsNeverReused ==
    /\ \A i, j \in ExistingMaterials :
          i # j => materials[i].materialId # materials[j].materialId
    /\ \A c, d \in StoredCredentials :
          c # d => credentials[c].credentialId # credentials[d].credentialId
    /\ \A x, y \in AllTransfers :
          x # y => materialTransfers[x[1]][x[2]].transferId
                      # materialTransfers[y[1]][y[2]].transferId
    /\ ~ENABLED (/\ NextIds
                 /\ \/ materialCount' < materialCount
                    \/ credentialCount' < credentialCount
                    \/ transferCount' < transferCount)

\* C27 witness: two materials of different types, each with a credential and
\* a transfer of its own.
C27_Witness ==
    /\ materialCount = 2
    /\ materials[1].materialType # materials[2].materialType
    /\ \A m \in ExistingMaterials :
          Len(materialCredentials[m]) > 0 /\ Len(materialTransfers[m]) > 0

\* ----------------------------------------------------------------------- C28
\* the i-th credential admitted on material m
CredAt(m, i) == credentials[materialCredentials[m][i]]

\* C28: for any two credentials x and y of one material, x the i-th and y the
\* j-th admitted, x.issuedAt <= y.issuedAt holds exactly when x was admitted
\* no later than y: before y or as y itself, or after y under the timestamp
\* under which y was admitted.
C28_IssuedAtFollowsAdmission ==
    \A m \in ExistingMaterials : \A i, j \in 1..Len(materialCredentials[m]) :
        CredAt(m, i).issuedAt <= CredAt(m, j).issuedAt
        <=> \/ i <= j
            \/ i > j /\ CredAt(m, i).issuedAt = CredAt(m, j).issuedAt

\* C28 witness: a material with three credentials, the first two admitted
\* under one timestamp and the third under a later one.
C28_Witness ==
    \E m \in ExistingMaterials :
        /\ Len(materialCredentials[m]) = 3
        /\ CredAt(m, 1).issuedAt = CredAt(m, 2).issuedAt
        /\ CredAt(m, 2).issuedAt < CredAt(m, 3).issuedAt

\* ----------------------------------------------------------------------- C29
\* c is the latest QC_MYCO credential of m as the scan takes it: non-revoked,
\* of the greatest issuedAt, and the first admitted of those with that issuedAt
IsScannedLatestQc(m, c) ==
    /\ c \in QcCredentials(m)
    /\ \A d \in QcCredentials(m) :
          \/ d.issuedAt < c.issuedAt
          \/ d.issuedAt = c.issuedAt /\ d.credentialId >= c.credentialId

Unretrievable == {"NotFound", "ReadError", "Timeout"}

\* the artifacts of checked credentials on which the benchmark's full
\* verification has acted: those the loop has passed, and the one at which the
\* run was given up
FullVerificationActedOn ==
    {i \in 1..Len(artifactRefs) :
        /\ artifactRefs[i].hash # ""
        /\ \/ i < credIndex
           \/ i = credIndex /\ materialized = "failed"}

\* the artifacts on which the verifier CLI has acted
VerifierActedOn == {i \in 1..Len(artifactRefs) : i < artifactIndex}

\* the artifact check of either verifier has answered Valid for artifact i
ArtifactCheckYieldsValid(i) ==
    \/ /\ verifyArtifactIntegrity(artifactRefs[i]).kind = "returned"
       /\ verifyArtifactIntegrity(artifactRefs[i]).valid
    \/ /\ MaterialVerifier_verifyArtifactIntegrity(artifactRefs[i]).kind = "returned"
       /\ MaterialVerifier_verifyArtifactIntegrity(artifactRefs[i]).valid

\* C30 (first half, which holds): the artifact check of an artifact of a
\* checked credential that cannot be retrieved never yields Valid, and the
\* verifier CLI, once it has acted on such an artifact, does not pass.
C30_UnretrievableNeverValid ==
    /\ \A i \in 1..Len(artifactRefs) :
          (artifactRefs[i].hash # "" /\ artifactRefs[i].fetch \in Unretrievable)
             => ~ArtifactCheckYieldsValid(i)
    /\ \A i \in VerifierActedOn :
          artifactRefs[i].fetch \in Unretrievable
             => ~artifactIntegrity[i].valid /\ ~overallPass

\* C30: fail-closed artifact handling.  Whenever full verification has acted
\* on an artifact of a checked credential that cannot be retrieved (not found,
\* storage error or timeout), the artifact check has not yielded Valid and
\* full verification fails with ARTIFACT_UNAVAILABLE: the run is not given
\* up without a verdict, fullPass is false and fullReasons holds the code.
C30_FailClosedArtifacts ==
    \A i \in FullVerificationActedOn :
        artifactRefs[i].fetch \in Unretrievable =>
           /\ ~ArtifactCheckYieldsValid(i)
           /\ materialized # "failed"
           /\ ~fullPass
           /\ \E k \in 1..Len(fullReasons) : fullReasons[k] = "ARTIFACT_UNAVAILABLE"

\* C30, the case that holds: an artifact that is not found makes full
\* verification fail with ARTIFACT_UNAVAILABLE, in every run that is not
\* given up at another artifact.
C30_NotFoundFailsUnavailable ==
    \A i \in FullVerificationActedOn :
        (artifactRefs[i].fetch = "NotFound" /\ materialized # "failed") =>
           /\ ~fullPass
           /\ \E k \in 1..Len(fullReasons) : fullReasons[k] = "ARTIFACT_UNAVAILABLE"

\* C30, the failing case reached: the read of an artifact that exists failed
\* while the contract had passed the material, and the run ended without a
\* prediction.
C30_ReadErrorDropsMaterial ==
    /\ materialized = "failed"
    /\ verifyResult.pass
    /\ artifactRefs[credIndex].fetch = "ReadError"
    /\ predictions = <<>>

\* the artifacts on which verifyArtifact has answered, and those on which
\* downloadAndVerify has settled
VerifyArtifactAnswered == {i \in DOMAIN verifyArtifactResult : verifyArtifactResult[i] # "none"}
DownloadSettled == {i \in DOMAIN downloadAndVerifyResult : downloadAndVerifyResult[i] # "none"}

\* two artifacts deliver the same bytes and are expected under the same hash
SameBytesAndHash(i, j) ==
    /\ artifactRefs[i].fetch = artifactRefs[j].fetch
    /\ artifactRefs[i].hash = artifactRefs[j].hash

\* C31: the outcome of an artifact integrity check is determined only by the
\* SHA-256 of the bytes fetched and the stored artifact hash: two artifacts
\* that agree on both get the same outcome from verifyArtifact and from
\* downloadAndVerify, whatever metadata the store reports for them, and an
\* artifact is accepted only when the SHA-256 of its bytes is the stored hash.
C31_OutcomeFromBytesAndHashOnly ==
    /\ \A i, j \in VerifyArtifactAnswered :
          SameBytesAndHash(i, j) => verifyArtifactResult[i] = verifyArtifactResult[j]
    /\ \A i, j \in DownloadSettled :
          SameBytesAndHash(i, j) => downloadAndVerifyResult[i] = downloadAndVerifyResult[j]
    /\ \A i \in VerifyArtifactAnswered :
          verifyArtifactResult[i] = "true" => artifactRefs[i].fetch = artifactRefs[i].hash
    /\ \A i \in DownloadSettled :
          downloadAndVerifyResult[i] = "resolved" => artifactRefs[i].fetch = artifactRefs[i].hash

\* C31, the part that holds: downloadAndVerify resolves exactly when the
\* SHA-256 of the bytes it fetched is the expected hash.
C31_DownloadFromBytesAndHashOnly ==
    \A i \in DownloadSettled :
        downloadAndVerifyResult[i] = "resolved"
           <=> (artifactRefs[i].fetch \in Digests /\ artifactRefs[i].fetch = artifactRefs[i].hash)

\* C31, the failing case reached: verifyArtifact accepts an object whose
\* bytes hash to something else than the stored hash, on the metadata alone.
C31_AcceptedOnReportedHash ==
    \E i \in VerifyArtifactAnswered :
        /\ verifyArtifactResult[i] = "true"
        /\ artifactRefs[i].fetch \in Digests
        /\ artifactRefs[i].fetch # artifactRefs[i].hash

\* the identifiers a caller may ask about: those of the materials that can be
\* registered, and one that never is
VerifyIdArgs == 1..(MaxMaterials + 1)

\* C32: for every material identifier and every registry state, verification
\* completes with a (pass, reasons) response and raises no error: the calls
\* verifyMaterial and verifyMaterialAt of the contract return, and so does
\* verifyMaterial of the client.
C32_VerificationNeverRaises ==
    \A m \in VerifyIdArgs :
        /\ verifyMaterialCall(m).kind = "returned"
        /\ \A at \in AtTimes : verifyMaterialAtCall(m, at).kind = "returned"
        /\ PureChainClient_verifyMaterial(m).pass
              <=> PureChainClient_verifyMaterial(m).reasons = <<>>

\* C32, the part that holds: for a registered material the contract answers
\* with pass and reasons, and the client answers for every identifier, a
\* failure always with a reason.
C32_RegisteredNeverRaises ==
    /\ \A m \in ExistingMaterials :
          /\ verifyMaterialCall(m).kind = "returned"
          /\ \A at \in AtTimes : verifyMaterialAtCall(m, at).kind = "returned"
    /\ \A m \in VerifyIdArgs :
          PureChainClient_verifyMaterial(m).pass
             <=> PureChainClient_verifyMaterial(m).reasons = <<>>

\* C32, the failing case reached: a material is registered and the call of
\* verifyMaterial for another identifier reverts with MaterialNotFound.
C32_UnknownIdReverts ==
    /\ materialCount = MaxMaterials
    /\ verifyMaterialCall(MaxMaterials + 1).kind = "reverted"
    /\ verifyMaterialCall(MaxMaterials + 1).error = "MaterialNotFound"

\* the write tasks that have been started, and those that are running
StartedTasks == {k \in 1..Len(tasks) : tasks[k].state # "queued"}
RunningTasks == {k \in 1..Len(tasks) : tasks[k].state = "running"}

\* C33: write tasks passed to the single-writer queue never overlap: at most
\* one task runs at a time, and a task has started only if every task
\* enqueued before it has settled, whichever clients enqueued them.
C33_WritesNeverOverlap ==
    /\ Cardinality(RunningTasks) <= 1
    /\ \A k \in StartedTasks : \A j \in 1..(k - 1) : tasks[j].state \in Settled

\* C33 witness: two clients have writes in the queue at once; the first task
\* has returned, the second runs in the middle of its calls and a third,
\* enqueued meanwhile by the client of the first, waits.
C33_Witness ==
    /\ Len(tasks) = 3
    /\ tasks[1].client # tasks[2].client
    /\ tasks[1].state = "fulfilled"
    /\ tasks[2].state = "running" /\ tasks[2].calls = 1
    /\ tasks[3].state = "queued"

\* C34: every write admitted to the single-writer queue is eventually started
\* and run to completion, whether the writes queued before it succeeded or
\* failed, provided each write itself terminates.
C34_AdmittedWritesComplete ==
    \A k \in 1..(MaxClients * MaxOps) :
        (Len(tasks) >= k) ~> (Len(tasks) >= k /\ tasks[k].state \in Settled)

\* C34 witness: a write enqueued behind a write that failed has run to
\* completion.
C34_Witness ==
    /\ Len(tasks) >= 2
    /\ tasks[1].state = "rejected"
    /\ tasks[2].after = 1
    /\ tasks[2].state = "fulfilled" /\ tasks[2].calls = WriteCalls

\* call i met a receipt that lacks the block height or carries a status other
\* than success
ReceiptNotFinal(i) ==
    /\ receipts[i].connected
    /\ ~receipts[i].receipt.threw
    /\ \/ receipts[i].receipt.blockNumber = NoValue
       \/ receipts[i].receipt.status = 0

\* C35: finality assertion.  If a transaction receipt lacks a block height or
\* carries a non-success status, the harness raises an error that aborts the
\* run: that call is the last one of the run and no operation result is
\* recorded for it.
C35_NonFinalReceiptAbortsRun ==
    \A i \in 1..Len(receipts) :
        ReceiptNotFinal(i) => (aborted /\ i = Len(receipts) /\ Len(opResults) < i)

\* C35, the part that holds: assertFinality throws for such a receipt, and
\* the client never reports SUCCESS for it.
C35_NonFinalReceiptIsNotSuccess ==
    \A i \in 1..Len(receipts) :
        ReceiptNotFinal(i) =>
           /\ assertFinality(receipts[i].receipt) = "throws"
           /\ PureChainClient_registerMaterial(receipts[i]).status # "SUCCESS"

\* C35, the failing case reached: the first receipt has no block number, its
\* latency was recorded as an operation result, and the run went on to a
\* second call.
C35_RunContinuesAfterNonFinalReceipt ==
    /\ Len(receipts) >= 2
    /\ ReceiptNotFinal(1)
    /\ receipts[1].receipt.blockNumber = NoValue
    /\ Len(opResults) >= 2
    /\ opResults[1].latencyRecorded
    /\ ~aborted

\* the reasons that do not depend on which QC_MYCO credential is the latest
ReasonsKeptByRevocation ==
    {"MATERIAL_REVOKED", "MATERIAL_QUARANTINED", "MISSING_IDENTITY", "QC_MISSING",
     "TRANSFER_PENDING"}

C36_RevocationRevivesOlderQc ==
    \E c \in StoredCredentials, d \in StoredCredentials, at \in AtTimes :
        /\ credentials[c].credType = "QC_MYCO" /\ credentials[d].credType = "QC_MYCO"
        /\ credentials[c].materialId = credentials[d].materialId
        /\ credentials[d].issuedAt < credentials[c].issuedAt
        /\ credentials[c].validUntil < at /\ at <= credentials[d].validUntil
        /\ HasReason(credentials[c].materialId, at, "QC_EXPIRED")
        /\ ENABLED (/\ revokeCredential(credentials[c].issuer, c)
                    /\ vars' # vars
                    /\ verifyMaterialAt(credentials[c].materialId, at)'.pass)

\* c shares its issuedAt with another non-revoked QC_MYCO credential of m
SharesIssuedAt(m, c) == \E d \in QcCredentials(m) : d # c /\ d.issuedAt = c.issuedAt

\* C37: when two non-revoked QC_MYCO credentials of a material have the same
\* issuedAt, verification evaluates the one admitted later: the most recently
\* admitted QC decides whether QC_EXPIRED and QC_ISSUER_REVOKED are reported.
C37_TieEvaluatesLaterAdmitted ==
    \A m \in ExistingMaterials, at \in AtTimes : \A c \in QcCredentials(m) :
        (IsMostRecentQc(m, c) /\ SharesIssuedAt(m, c)) =>
           /\ HasReason(m, at, "QC_ISSUER_REVOKED") <=> RevokedAtOrBefore(c)
           /\ HasReason(m, at, "QC_EXPIRED") <=> (~RevokedAtOrBefore(c) /\ c.validUntil < at)

\* C37, what the scan does: of the non-revoked QC_MYCO credentials with the
\* greatest issuedAt, the first admitted decides.
C37_TieEvaluatesFirstAdmitted ==
    \A m \in ExistingMaterials, at \in AtTimes : \A c \in QcCredentials(m) :
        (IsScannedLatestQc(m, c) /\ SharesIssuedAt(m, c)) =>
           /\ HasReason(m, at, "QC_ISSUER_REVOKED") <=> RevokedAtOrBefore(c)
           /\ HasReason(m, at, "QC_EXPIRED") <=> (~RevokedAtOrBefore(c) /\ c.validUntil < at)

\* C37, the failing case reached: two QC_MYCO credentials admitted under one
\* timestamp, the later one still valid at a time at which the earlier one
\* has run out, and QC_EXPIRED is reported.
C37_EarlierAdmittedDecides ==
    \E m \in ExistingMaterials, at \in AtTimes : \E c, d \in QcCredentials(m) :
        /\ IsMostRecentQc(m, c) /\ d.issuedAt = c.issuedAt /\ d.credentialId < c.credentialId
        /\ ~RevokedAtOrBefore(c) /\ c.validUntil >= at
        /\ d.validUntil # 0 /\ d.validUntil < at
        /\ HasReason(m, at, "QC_EXPIRED")

\* ----------------------------------------------------------------------- C38
\* C38: in every reachable state every transfer of a material except the last
\* one of its list is accepted, so only the most recent transfer can be pending.
C38_OnlyLastTransferCanBePending ==
    \A m \in ExistingMaterials :
        \A i \in 1..Len(materialTransfers[m]) :
            i < Len(materialTransfers[m]) => materialTransfers[m][i].accepted

\* C38 witness: a material with an accepted transfer followed by a pending one
\* that its new owner initiated.
C38_Witness ==
    \E m \in ExistingMaterials :
        /\ Len(materialTransfers[m]) >= 2
        /\ ~materialTransfers[m][Len(materialTransfers[m])].accepted
        /\ materialTransfers[m][Len(materialTransfers[m])].fromAddress
              = materialTransfers[m][Len(materialTransfers[m]) - 1].toAddress
        /\ materials[m].owner = materialTransfers[m][Len(materialTransfers[m])].fromAddress

\* ----------------------------------------------------------------------- C39
\* C39: transfer chain continuity. In every reachable state the fromAddress of
\* the first transfer of a material is the address that registered it, and the
\* fromAddress of each later transfer is the toAddress of the transfer
\* immediately before it in the list.
C39_TransferChainContinuity ==
    \A m \in ExistingMaterials :
        \A i \in 1..Len(materialTransfers[m]) :
            materialTransfers[m][i].fromAddress =
                IF i = 1 THEN materials[m].registeredBy
                         ELSE materialTransfers[m][i - 1].toAddress

\* C39 witness: a material with two transfers, the first one from the address
\* that registered it to another address, which sent the second.
C39_Witness ==
    \E m \in ExistingMaterials :
        /\ Len(materialTransfers[m]) = 2
        /\ materialTransfers[m][1].fromAddress = materials[m].registeredBy
        /\ materialTransfers[m][1].toAddress # materials[m].registeredBy
        /\ materialTransfers[m][2].fromAddress = materialTransfers[m][1].toAddress

\* ----------------------------------------------------------------------- C40
\* C40 as stated: acceptTransfer succeeds only while the status of the
\* material is ACTIVE; on a material that is QUARANTINED or REVOKED no call of
\* acceptTransfer can take a step that changes the owner.
C40_AcceptOnlyWhileActive ==
    \A m \in ExistingMaterials, caller \in Addr :
        /\ acceptTransferErr(caller, m) = "ok" => materials[m].status = "ACTIVE"
        /\ materials[m].status # "ACTIVE" =>
              ~ENABLED (/\ acceptTransfer(caller, m)
                        /\ materials'[m].owner # materials[m].owner)

\* C40 amended: acceptTransfer does not look at the status. It succeeds exactly
\* when the caller is the toAddress of the latest transfer and that transfer
\* is not accepted, whatever the status; when it does and the history has room
\* the caller becomes the owner and the status stays as it is. The status
\* stands only in the way of new transfers: initiateTransfer reverts for every
\* caller while the material is not ACTIVE.
C40_AcceptIgnoresStatus ==
    \A m \in ExistingMaterials, caller \in Addr :
        /\ acceptTransferErr(caller, m) = "ok"
              <=> /\ LatestTransferUnaccepted(m)
                  /\ materialTransfers[m][Len(materialTransfers[m])].toAddress = caller
        /\ (acceptTransferErr(caller, m) = "ok" /\ Len(materialHistory[m]) < historyCap) =>
              ENABLED (/\ acceptTransfer(caller, m)
                       /\ materials'[m].owner = caller
                       /\ materials'[m].status = materials[m].status
                       /\ materialTransfers'[m][Len(materialTransfers[m])].accepted)
        /\ materials[m].status # "ACTIVE" => initiateTransferErr(caller, m) # "ok"

\* C40 witness: a transfer left pending on a material that was then set to
\* QUARANTINED or REVOKED; its recipient, who is not the owner, can accept it.
C40_Witness ==
    \E m \in ExistingMaterials :
        /\ materials[m].status \in {"QUARANTINED", "REVOKED"}
        /\ LatestTransferUnaccepted(m)
        /\ Len(materialHistory[m]) < historyCap
        /\ materialTransfers[m][Len(materialTransfers[m])].toAddress # materials[m].owner
        /\ acceptTransferErr(materialTransfers[m][Len(materialTransfers[m])].toAddress, m) = "ok"
====
